---------------------------- MODULE Spec2Model ----------------------------
(***************************************************************************)
(* Bendulum clock sketches: the adjustment ledger (stepix, adjustable,     *)
(* speedAdj, adjRTC), the run mode and the persisted settings of the three *)
(* clock sketches                                                          *)
(*   BendulumClock     src/BendulumClock/BendulumClock.ino                 *)
(*   Escapement        src/Escapement/Escapement.ino                       *)
(*   RealtimeClockCal  src/unnamed/part_000                                *)
(* One pass of loop() is three steps: the beat (the escapement does one    *)
(* beat and the clock is driven by its duration), the button (onButton     *)
(* dispatches at most one handler) and the run-mode switch that ends the   *)
(* pass.  The Escapement, Bendulum and Clock libraries are not part of the *)
(* sketches: their calls are modelled by their documented interface.       *)
(***************************************************************************)
EXTENDS Integers, Sequences, FiniteSets, TLC

VARIABLES
  sketch,      \* which sketch is running
  jumper,      \* cold start jumper installed (CS_PIN reads LOW)
  pc,          \* "setup", "first", "beat", "button", "mode": position in setup()/loop()
  stepix,      \* adjustment step size index
  adjustable,  \* adjustments enabled (Power button)
  speedAdj,    \* pending speed adjustment, tenths of a second per day
  adjRTC,      \* BendulumClock: speedAdj is to be applied to the real-time clock
  runMode,     \* run mode of the escapement / bendulum object
  coldPath,    \* BendulumClock: the escapement is on its cold start path
  isTick,      \* Escapement: the last beat was a tick
  bias,        \* real-time clock correction held by e / b, tenths of a second per day
  beatDelta,   \* manual beat adjustment applied through e / b, tenths of a second per day
  uspb,        \* Escapement: calibrated beat duration held by b, microseconds
  peakScale,   \* Escapement: peak scaling held by b
  settings,    \* the settings_t structure in RAM
  eeprom,      \* the settings_t image in EEPROM
  calls,       \* Clock calls made by the last step, in order
  wrote,       \* the last step wrote persisted settings
  presses,     \* number of Up/Down presses so far
  lastTime,    \* RealtimeClockCal: micros() when the clock was last driven
  topTime,     \* RealtimeClockCal: micros() at the top of the last pass
  ticks,       \* RealtimeClockCal: number of passes in which micros() had moved on
  calWrites,   \* Escapement: settings writes of the run-mode switch since the last beat
  ledBeatColor,\* BendulumClock, Escapement: colour of the beat flash
  irCodes,     \* the IR codes the remote sends in this session, in order; << >> for a
               \* remote whose buttons are tapped in any order and never held
  irNext,      \* position in irCodes of the next code to arrive
  keyIx,       \* onButton: index of the button pushed last
  repeat,      \* onButton: repeat codes received in a row
  irReady,     \* irRecv: watching for the next code
  table,       \* dump sketches: the calibration table read from EEPROM
  bix,         \* dump sketches: bucket index of the summing loop
  sums,        \* dump sketches: xSum, ySum, xxSum, xySum and count
  report,      \* dump sketches: what was printed about the fit
  clkTotal,    \* Clock: microseconds driven and not yet worked off
  clkShown,    \* Clock: seconds the display has been moved forward
  clkDriven,   \* microseconds passed to c.driveMicros so far, pauses included
  clkCalls,    \* number of c.driveMicros calls so far
  clkPause,    \* microseconds of the last pause asked for
  clkSince,    \* microseconds of beats driven since the last pause was asked for
  clkMoved,    \* the display has moved since the last pause was asked for
  rtcFirst,    \* RealtimeClockCal: micros() when lastTime was initialised
  rtcSum,      \* RealtimeClockCal: microseconds of the intervals driven so far, uncorrected
  tick,        \* DriveClock: stepClock's static tick, whether the motor needs a tick
  pins,        \* DriveClock: the level last written to each output pin
  pulses,      \* DriveClock: the pins taken HIGH so far, in order
  steps,       \* DriveClock: stepClock calls that have returned
  op,          \* the last step taken
  pre          \* the state the last step started from

vars == <<sketch, jumper, pc, stepix, adjustable, speedAdj, adjRTC, runMode,
          coldPath, isTick, bias, beatDelta, uspb, peakScale, settings, eeprom,
          calls, wrote, presses, lastTime, topTime, ticks, calWrites, ledBeatColor,
          irCodes, irNext, keyIx, repeat, irReady, table, bix, sums, report, clkTotal, clkShown,
          clkDriven, clkCalls, clkPause, clkSince, clkMoved, rtcFirst, rtcSum,
          tick, pins, pulses, steps, op, pre>>

\* the state of the remote's decoding, of the dump sketches and of the Clock object
remoteVars == <<irCodes, irNext, keyIx, repeat, irReady>>
dumpVars == <<table, bix, sums, report>>
clkVars == <<clkTotal, clkShown, clkDriven, clkCalls, clkPause, clkSince, clkMoved>>
rtcVars == <<rtcFirst, rtcSum>>
motorVars == <<tick, pins, pulses, steps>>

(***************************************************************************)
(* Bounds of the model                                                     *)
(***************************************************************************)
MaxPresses == 1
MaxTicks == 2

(***************************************************************************)
(* Program constants                                                       *)
(***************************************************************************)
SETTINGS_TAG == 40992
OverflowStep == 21474
UsPerTenth == 100000
HalfSecond == 500000
RoundOffset == 432000
TenthsPerDay == 864000
SFIRR_REPEAT_PAUSE == 3

Sketches == {"BendulumClock", "Escapement", "RealtimeClockCal"}

(***************************************************************************)
(* Integers of the AVR build.  An int is 16 bits and a long 32 bits, two's *)
(* complement.  A 32-bit value, signed or unsigned, is held as the signed  *)
(* integer with the same bit pattern and worked on in 16-bit halves.       *)
(***************************************************************************)
ToInt16(x) == LET m == x % 65536 IN IF m >= 32768 THEN m - 65536 ELSE m
ToByte(x) == x % 256
Hi16(w) == (w \div 65536) % 65536
Lo16(w) == w % 65536
Word(hi, lo) == IF hi >= 32768 THEN (hi - 65536) * 65536 + lo ELSE hi * 65536 + lo
\* a + b and a - b, wrapped to 32 bits
Add32(a, b) ==
  LET lo == Lo16(a) + Lo16(b)
      hi == Hi16(a) + Hi16(b) + (lo \div 65536)
  IN  Word(hi % 65536, lo % 65536)
Sub32(a, b) ==
  LET lo == Lo16(a) - Lo16(b)
      hi == Hi16(a) - Hi16(b) + (lo \div 65536)
  IN  Word(hi % 65536, lo % 65536)
\* the 32-bit product of two 16-bit halves, as <<high half, low half>>
Mul16(x, y) ==
  LET X == x * (y % 256)
      Y == x * (y \div 256)
      Z == X + (Y % 256) * 256
  IN  <<(Y \div 256) + (Z \div 65536), Z % 65536>>
\* a * b, wrapped to 32 bits
Mul32(a, b) ==
  LET p == Mul16(Lo16(a), Lo16(b))
      c1 == Mul16(Hi16(a), Lo16(b))[2]
      c2 == Mul16(Lo16(a), Hi16(b))[2]
  IN  Word((p[1] + c1 + c2) % 65536, p[2])
\* unsigned a / d for an even divisor d
DivU32(a, d) == (Hi16(a) * 32768 + (Lo16(a) \div 2)) \div (d \div 2)
\* unsigned a >= b
GeU32(a, b) == Hi16(a) > Hi16(b) \/ (Hi16(a) = Hi16(b) /\ Lo16(a) >= Lo16(b))
stepSize == <<1, 10, 100, 600, 6000, 36000>>
\* stepSize[stepix] with the sketch's 0-based index
StepAt(i) == stepSize[i + 1]


\* C integer division truncates toward zero
CDiv(a, b) == IF a >= 0 THEN a \div b ELSE -((-a) \div b)

(***************************************************************************)
(* EEPROM images the sketch may find at power-up, and the zero-initialised *)
(* global settings structure                                               *)
(***************************************************************************)
ZeroSettings == [id |-> 0, rtcCorrection |-> 0, peakScale |-> 0, uspb |-> 0]
ValidImage == [id |-> SETTINGS_TAG, rtcCorrection |-> -50, peakScale |-> 10, uspb |-> 1000000]
ErasedImage == [id |-> 65535, rtcCorrection |-> -1, peakScale |-> -1, uspb |-> -1]
Images == {ValidImage, ErasedImage}

\* durations e.beat() / b.beat() may return, microseconds
BeatDurations == {1000000}

(***************************************************************************)
(* The libraries' objects, by their interface                              *)
(***************************************************************************)
\* Bendulum b as constructed: automatic calibration, nothing calibrated yet
DefaultRunMode == "SETTLING"
DefaultPeakScale == 0
\* values the automatic calibration of b arrives at
ScaledPeak == 12
CalibratedUspb == 1000250

\* e.incrBias(incr), e.incrBeatDelta(incr): add incr to the field, return it
incrBias(b, incr) == b + incr
incrBeatDelta(d, incr) == d + incr
\* b.getBeatDuration(): the calibrated duration with the manual adjustment
\* (tenths of a second per day) applied
getBeatDuration(u, d) == u + CDiv(d * (u \div 1000), 864)

\* e.enable(): the run mode the Escapement starts in, from what it stored
EnableRunMode(img) ==
  IF img.id = SETTINGS_TAG
    THEN IF img.uspb > 0 THEN "RUN" ELSE "WARMSTART"
    ELSE "COLDSTART"
EnableBias(img) == IF img.id = SETTINGS_TAG THEN img.rtcCorrection ELSE 0

\* run modes e.beat() may leave the Escapement in
BC_BeatModes(m, cold) ==
  CASE m = "COLDSTART" -> {"COLDSTART", "WARMSTART"}
    [] m = "WARMSTART" -> {"WARMSTART", IF cold THEN "CALRTC" ELSE "CALIBRATE"}
    [] m = "CALIBRATE" -> {"CALIBRATE", "CALFINISH"}
    [] m = "CALFINISH" -> {"RUN"}
    [] m = "RUN"       -> {"RUN", "CALIBRATE"}
    [] OTHER           -> {m}

\* run modes b.beat() may leave the Bendulum in
Esc_BeatModes(m) ==
  CASE m = "SETTLING"    -> {"SETTLING", "SCALING"}
    [] m = "SCALING"     -> {"SCALING", "CALIBRATING"}
    [] m = "CALIBRATING" -> {"CALIBRATING", "CALFINISH"}
    [] m = "CALFINISH"   -> {"RUNNING"}
    [] OTHER             -> {m}

(***************************************************************************)
(* Clock calls                                                             *)
(***************************************************************************)
driveMicros(n) == [call |-> "driveMicros", arg |-> n]
driveSec(n) == [call |-> "driveSec", arg |-> n]
cancelDrive == [call |-> "cancelDrive", arg |-> 0]

(***************************************************************************)
(* DriveClock: the output pins                                             *)
(***************************************************************************)
LED_PIN == 13
TICK_PIN == 11
TOCK_PIN == 10
OutputPins == {LED_PIN, TICK_PIN, TOCK_PIN}
\* every output pin LOW, as setup() leaves them
AllLow == [p \in OutputPins |-> "LOW"]
\* digitalWrite(pin, level)
digitalWrite(ps, pin, level) == [ps EXCEPT ![pin] = level]

(***************************************************************************)
(* The beat flash colours                                                  *)
(***************************************************************************)
RGB_LED_BLACK == "black"
\* Escapement: the flash colour when not hot starting, and its CAL_BEAT_COLOR
RGB_LED_YELLOW == "yellow"
COLD_BEAT_COLOR == "red"
WARM_BEAT_COLOR == "yellow"
CAL_BEAT_COLOR == "blue"
NORMAL_BEAT_COLOR == "green"
RTC_BEAT_COLOR == "magenta"

\* the colour setup() chooses for the run mode e.enable() and the jumper left
StartColor(m, color) ==
  CASE m = "RUN"       -> NORMAL_BEAT_COLOR
    [] m = "WARMSTART" -> WARM_BEAT_COLOR
    [] m = "COLDSTART" -> COLD_BEAT_COLOR
    [] OTHER           -> color

\* the colour the run-mode switch of loop() leaves
ModeColor(m, color) ==
  CASE m = "CALIBRATE" -> CAL_BEAT_COLOR
    [] m = "RUN"       -> NORMAL_BEAT_COLOR
    [] OTHER           -> color

(***************************************************************************)
(* The state a step starts from                                            *)
(***************************************************************************)
Snapshot ==
  [stepix |-> stepix, adjustable |-> adjustable, speedAdj |-> speedAdj,
   adjRTC |-> adjRTC, runMode |-> runMode, bias |-> bias, beatDelta |-> beatDelta,
   uspb |-> uspb, peakScale |-> peakScale, settings |-> settings, eeprom |-> eeprom,
   lastTime |-> lastTime, calWrites |-> calWrites,
   irNext |-> irNext, keyIx |-> keyIx, repeat |-> repeat]

Step(name) == op' = name /\ pre' = Snapshot

\* dump sketches: the sums before the first bucket, and nothing printed yet
ZeroSums ==
  [xSum |-> [n |-> 0, d |-> 1], ySum |-> [n |-> 0, d |-> 1],
   xxSum |-> [n |-> 0, d |-> 1], xySum |-> [n |-> 0, d |-> 1], count |-> 0]
NoReport == [kind |-> "none"]

Init ==
  /\ sketch \in Sketches
  /\ jumper \in BOOLEAN
  /\ eeprom \in Images
  /\ pc = "setup"
  /\ stepix = 3
  /\ adjustable = FALSE
  /\ speedAdj = 0
  /\ adjRTC = FALSE
  /\ runMode = IF sketch = "Escapement" THEN DefaultRunMode ELSE "NONE"
  /\ coldPath = FALSE
  /\ isTick = FALSE
  /\ bias = 0
  /\ beatDelta = 0
  /\ uspb = 0
  /\ peakScale = DefaultPeakScale
  /\ settings = ZeroSettings
  /\ calls = << >>
  /\ wrote = FALSE
  /\ presses = 0
  /\ lastTime = 0
  /\ topTime = 0
  /\ ticks = 0
  /\ calWrites = 0
  /\ ledBeatColor = IF sketch = "Escapement" THEN RGB_LED_YELLOW ELSE RGB_LED_BLACK
  /\ irCodes = << >>
  /\ irNext = 1
  /\ irReady = TRUE
  /\ keyIx = 0
  /\ repeat = 0
  /\ table = << >>
  /\ bix = 0
  /\ sums = ZeroSums
  /\ report = NoReport
  /\ clkTotal = 0
  /\ clkShown = 0
  /\ clkDriven = 0 /\ clkCalls = 0 /\ clkPause = 0 /\ clkSince = 0 /\ clkMoved = FALSE
  /\ rtcFirst = 0 /\ rtcSum = 0
  /\ tick = TRUE /\ pins = AllLow /\ pulses = << >> /\ steps = 0
  /\ op = "power-up"
  /\ pre = Snapshot

(***************************************************************************)
(* setup()                                                                 *)
(***************************************************************************)
BC_setup ==
  /\ sketch = "BendulumClock" /\ pc = "setup"
  /\ runMode' = IF jumper THEN "COLDSTART" ELSE EnableRunMode(eeprom)
  /\ coldPath' = (runMode' = "COLDSTART")
  /\ bias' = EnableBias(eeprom)
  /\ ledBeatColor' = StartColor(runMode', ledBeatColor)
  /\ pc' = "beat"
  /\ calls' = << >> /\ wrote' = FALSE
  /\ Step("setup")
  /\ UNCHANGED <<remoteVars, dumpVars, clkVars, rtcVars, motorVars>>
  /\ UNCHANGED <<sketch, jumper, stepix, adjustable, speedAdj, adjRTC, isTick,
                 beatDelta, uspb, peakScale, settings, eeprom, presses,
                 lastTime, topTime, ticks, calWrites>>

\* a setup that reads the EEPROM whether or not the jumper is installed
Esc_setup_NoJumper ==
  /\ sketch = "Escapement" /\ pc = "setup"
  /\ settings' = eeprom
  /\ IF settings'.id = SETTINGS_TAG
       THEN /\ bias' = settings'.rtcCorrection
            /\ IF settings'.uspb > 0
                 THEN /\ runMode' = "RUNNING"
                      /\ uspb' = settings'.uspb
                      /\ peakScale' = settings'.peakScale
                      /\ ledBeatColor' = NORMAL_BEAT_COLOR
                 ELSE UNCHANGED <<runMode, uspb, peakScale, ledBeatColor>>
       ELSE UNCHANGED <<bias, runMode, uspb, peakScale, ledBeatColor>>
  /\ pc' = "beat"
  /\ calls' = << >> /\ wrote' = FALSE
  /\ Step("setup")
  /\ UNCHANGED <<remoteVars, dumpVars, clkVars, rtcVars, motorVars>>
  /\ UNCHANGED <<sketch, jumper, stepix, adjustable, speedAdj, adjRTC, coldPath,
                 isTick, beatDelta, eeprom, presses,
                 lastTime, topTime, ticks, calWrites>>

\* a setup that does not hand the stored peak scale to b
Esc_setup_NoPeakScale ==
  /\ sketch = "Escapement" /\ pc = "setup"
  /\ IF ~jumper
       THEN /\ settings' = eeprom
            /\ IF settings'.id = SETTINGS_TAG
                 THEN /\ bias' = settings'.rtcCorrection
                      /\ IF settings'.uspb > 0
                           THEN /\ runMode' = "RUNNING"
                                /\ uspb' = settings'.uspb
                                /\ UNCHANGED peakScale
                                /\ ledBeatColor' = NORMAL_BEAT_COLOR
                           ELSE UNCHANGED <<runMode, uspb, peakScale, ledBeatColor>>
                 ELSE UNCHANGED <<bias, runMode, uspb, peakScale, ledBeatColor>>
       ELSE UNCHANGED <<settings, bias, runMode, uspb, peakScale, ledBeatColor>>
  /\ pc' = "beat"
  /\ calls' = << >> /\ wrote' = FALSE
  /\ Step("setup")
  /\ UNCHANGED <<remoteVars, dumpVars, clkVars, rtcVars, motorVars>>
  /\ UNCHANGED <<sketch, jumper, stepix, adjustable, speedAdj, adjRTC, coldPath,
                 isTick, beatDelta, eeprom, presses,
                 lastTime, topTime, ticks, calWrites>>

\* a setup that hot starts on any stored beat duration but zero
Esc_setup_AnyBeat ==
  /\ sketch = "Escapement" /\ pc = "setup"
  /\ IF ~jumper
       THEN /\ settings' = eeprom
            /\ IF settings'.id = SETTINGS_TAG
                 THEN /\ bias' = settings'.rtcCorrection
                      /\ IF settings'.uspb # 0
                           THEN /\ runMode' = "RUNNING"
                                /\ uspb' = settings'.uspb
                                /\ peakScale' = settings'.peakScale
                                /\ ledBeatColor' = NORMAL_BEAT_COLOR
                           ELSE UNCHANGED <<runMode, uspb, peakScale, ledBeatColor>>
                 ELSE UNCHANGED <<bias, runMode, uspb, peakScale, ledBeatColor>>
       ELSE UNCHANGED <<settings, bias, runMode, uspb, peakScale, ledBeatColor>>
  /\ pc' = "beat"
  /\ calls' = << >> /\ wrote' = FALSE
  /\ Step("setup")
  /\ UNCHANGED <<remoteVars, dumpVars, clkVars, rtcVars, motorVars>>
  /\ UNCHANGED <<sketch, jumper, stepix, adjustable, speedAdj, adjRTC, coldPath,
                 isTick, beatDelta, eeprom, presses,
                 lastTime, topTime, ticks, calWrites>>

Esc_setup ==
  /\ sketch = "Escapement" /\ pc = "setup"
  /\ IF ~jumper
       THEN /\ settings' = eeprom
            /\ IF settings'.id = SETTINGS_TAG
                 THEN /\ bias' = settings'.rtcCorrection
                      /\ IF settings'.uspb > 0
                           THEN /\ runMode' = "RUNNING"
                                /\ uspb' = settings'.uspb
                                /\ peakScale' = settings'.peakScale
                                /\ ledBeatColor' = NORMAL_BEAT_COLOR
                           ELSE UNCHANGED <<runMode, uspb, peakScale, ledBeatColor>>
                 ELSE UNCHANGED <<bias, runMode, uspb, peakScale, ledBeatColor>>
       ELSE UNCHANGED <<settings, bias, runMode, uspb, peakScale, ledBeatColor>>
  /\ pc' = "beat"
  /\ calls' = << >> /\ wrote' = FALSE
  /\ Step("setup")
  /\ UNCHANGED <<remoteVars, dumpVars, clkVars, rtcVars, motorVars>>
  /\ UNCHANGED <<sketch, jumper, stepix, adjustable, speedAdj, adjRTC, coldPath,
                 isTick, beatDelta, eeprom, presses,
                 lastTime, topTime, ticks, calWrites>>

RTC_setup ==
  /\ sketch = "RealtimeClockCal" /\ pc = "setup"
  /\ settings' = IF ~jumper THEN eeprom ELSE settings
  /\ pc' = "first"
  /\ calls' = << >> /\ wrote' = FALSE
  /\ Step("setup")
  /\ UNCHANGED <<ledBeatColor, remoteVars, dumpVars, clkVars, rtcVars, motorVars>>
  /\ UNCHANGED <<sketch, jumper, stepix, adjustable, speedAdj, adjRTC, runMode,
                 coldPath, isTick, bias, beatDelta, uspb, peakScale, eeprom, presses,
                 lastTime, topTime, ticks, calWrites>>

(***************************************************************************)
(* The beat: the first statement of loop()                                 *)
(***************************************************************************)
\* BendulumClock: c.driveMicros(e.beat())
BC_beat ==
  /\ sketch = "BendulumClock" /\ pc = "beat"
  /\ runMode' \in BC_BeatModes(runMode, coldPath)
  /\ coldPath' = (coldPath /\ runMode' \in {"COLDSTART", "WARMSTART"})
  /\ \E d \in BeatDurations : calls' = <<driveMicros(d)>>
  /\ wrote' = FALSE
  /\ pc' = "button"
  /\ Step("beat")
  /\ UNCHANGED <<ledBeatColor, remoteVars, dumpVars, clkVars, rtcVars, motorVars>>
  /\ UNCHANGED <<sketch, jumper, stepix, adjustable, speedAdj, adjRTC, isTick, bias,
                 beatDelta, uspb, peakScale, settings, eeprom, presses,
                 lastTime, topTime, ticks, calWrites>>

\* Escapement: c.driveMicros(b.beat())
Esc_beat ==
  /\ sketch = "Escapement" /\ pc = "beat"
  /\ runMode' \in Esc_BeatModes(runMode)
  /\ isTick' = ~isTick
  /\ peakScale' = IF runMode = "SCALING" /\ runMode' = "CALIBRATING"
                    THEN ScaledPeak ELSE peakScale
  /\ uspb' = IF runMode = "CALIBRATING" /\ runMode' = "CALFINISH"
               THEN CalibratedUspb ELSE uspb
  /\ beatDelta' = IF runMode = "CALIBRATING" /\ runMode' = "CALFINISH"
                    THEN 0 ELSE beatDelta
  /\ \E d \in BeatDurations : calls' = <<driveMicros(d)>>
  /\ wrote' = FALSE
  /\ calWrites' = 0
  /\ pc' = "button"
  /\ Step("beat")
  /\ UNCHANGED <<ledBeatColor, remoteVars, dumpVars, clkVars, rtcVars, motorVars>>
  /\ UNCHANGED <<sketch, jumper, stepix, adjustable, speedAdj, adjRTC, coldPath, bias,
                 settings, eeprom, presses,
                 lastTime, topTime, ticks>>

\* RealtimeClockCal: micros() at the first pass of loop(), as a 32-bit word
\* (just short of the wrap), and how far micros() may have moved on from one
\* reading to the next
StartTimes == {-700000}
MicrosSteps == {0, 400000, 500000}

\* the uncorrected time since the last drive, corrected by the stored
\* rtcCorrection in the operand types of the build (int times unsigned long,
\* all in unsigned 32-bit arithmetic)
Corrected(corr, deltaT) ==
  Add32(deltaT, DivU32(Add32(Mul32(corr, deltaT), RoundOffset), TenthsPerDay))

\* a drive that is due only after more than half a second
DriveDueStrict(last, top) == ~GeU32(HalfSecond, Sub32(top, last))
\* deltaT = topTime - lastTime; deltaT >= 500000, on unsigned longs
DriveDue(last, top) == GeU32(Sub32(top, last), HalfSecond)

\* The static lastTime is set from micros() when loop() is first entered
\* (pc = "first"); pre holds the state after that initialisation.
\* a pass that moves lastTime on by the half second it waited for
RTC_pass_HalfSecond(limit) ==
  /\ sketch = "RealtimeClockCal" /\ pc \in {"first", "beat"}
  /\ \E start \in StartTimes, step \in MicrosSteps :
       LET last == IF pc = "first" THEN start ELSE lastTime
           top == Add32(IF pc = "first" THEN start ELSE topTime, step)
           deltaT == Sub32(top, last)
           sum == IF pc = "first" THEN 0 ELSE rtcSum
       IN  /\ step > 0 => ticks < limit
           /\ ticks' = IF step > 0 THEN ticks + 1 ELSE ticks
           /\ topTime' = top
           /\ rtcFirst' = IF pc = "first" THEN start ELSE rtcFirst
           /\ IF DriveDue(last, top)
                THEN /\ calls' = <<driveMicros(Corrected(settings.rtcCorrection, deltaT))>>
                     /\ lastTime' = Add32(last, HalfSecond)
                     /\ rtcSum' = sum + deltaT
                ELSE /\ calls' = << >>
                     /\ lastTime' = last
                     /\ rtcSum' = sum
           /\ pre' = [Snapshot EXCEPT !.lastTime = last]
  /\ op' = "beat"
  /\ wrote' = FALSE
  /\ pc' = "button"
  /\ UNCHANGED <<ledBeatColor, remoteVars, dumpVars, clkVars, motorVars>>
  /\ UNCHANGED <<sketch, jumper, stepix, adjustable, speedAdj, adjRTC, runMode, coldPath,
                 isTick, bias, beatDelta, uspb, peakScale, settings, eeprom, presses,
                 calWrites>>

\* one pass of loop() up to onButton, with no more than limit passes in which
\* micros() has moved on
RTC_pass(limit) ==
  /\ sketch = "RealtimeClockCal" /\ pc \in {"first", "beat"}
  /\ \E start \in StartTimes, step \in MicrosSteps :
       LET last == IF pc = "first" THEN start ELSE lastTime
           top == Add32(IF pc = "first" THEN start ELSE topTime, step)
           deltaT == Sub32(top, last)
           sum == IF pc = "first" THEN 0 ELSE rtcSum
       IN  /\ step > 0 => ticks < limit
           /\ ticks' = IF step > 0 THEN ticks + 1 ELSE ticks
           /\ topTime' = top
           /\ rtcFirst' = IF pc = "first" THEN start ELSE rtcFirst
           /\ IF DriveDue(last, top)
                THEN /\ calls' = <<driveMicros(Corrected(settings.rtcCorrection, deltaT))>>
                     /\ lastTime' = top
                     /\ rtcSum' = sum + deltaT
                ELSE /\ calls' = << >>
                     /\ lastTime' = last
                     /\ rtcSum' = sum
           /\ pre' = [Snapshot EXCEPT !.lastTime = last]
  /\ op' = "beat"
  /\ wrote' = FALSE
  /\ pc' = "button"
  /\ UNCHANGED <<ledBeatColor, remoteVars, dumpVars, clkVars, motorVars>>
  /\ UNCHANGED <<sketch, jumper, stepix, adjustable, speedAdj, adjRTC, runMode, coldPath,
                 isTick, bias, beatDelta, uspb, peakScale, settings, eeprom, presses,
                 calWrites>>

RTC_loop == RTC_pass(MaxTicks)

(***************************************************************************)
(* The button handlers.  fA, fC, fUp, fDown, fLeft and fRight are the same *)
(* in the three sketches.                                                  *)
(***************************************************************************)
AfterButton == IF sketch = "RealtimeClockCal" THEN "beat" ELSE "mode"

\* the handlers in the order of the fPointer array, indexed from 0 by keyIx
ButtonNames ==
  <<"fPower", "fA", "fB", "fC", "fUp", "fDown", "fLeft", "fRight", "fSelect">>
ButtonCodes == {ButtonNames[k] : k \in 1..Len(ButtonNames)}
KeyOf(code) == CHOOSE k \in 0..(Len(ButtonNames) - 1) : ButtonNames[k + 1] = code

\* what irRecv.decode may deliver in this pass: nothing, or the next code of
\* the session ("REPEAT" while a button is held, "other" for a code the
\* remote does not generate); any button's code when buttons are only tapped
Incoming ==
  IF ~irReady THEN {"nothing"}
  ELSE IF irCodes = << >> THEN {"nothing"} \cup ButtonCodes
  ELSE IF irNext > Len(irCodes) THEN {"nothing"}
  ELSE {"nothing", irCodes[irNext]}

\* an onButton that leaves the receiver stopped after a code it does not know
Resumed_NotOnDefault(code) == code \in ButtonCodes \cup {"REPEAT"}

\* irRecv.resume() on the way out of onButton: after the handler, in the
\* repeat pause and after a code that is not recognised
Resumed(code) ==
  CASE code \in ButtonCodes -> TRUE
    [] code = "REPEAT" -> TRUE
    [] OTHER -> TRUE

\* the handler onButton calls for the code, "none" when it returns without
\* calling one
Dispatched(code) ==
  CASE code \in ButtonCodes -> code
    [] code = "REPEAT" -> IF repeat + 1 < SFIRR_REPEAT_PAUSE
                            THEN "none" ELSE ButtonNames[keyIx + 1]
    [] OTHER -> "none"

\* an onButton after which loop() comes back to onButton without a beat
Button_Again(name) ==
  /\ pc = "button"
  /\ pc' = "button"
  /\ Step(name)
  /\ \E code \in Incoming :
       /\ name = Dispatched(code)
       /\ irNext' = IF code = "nothing" \/ irCodes = << >> THEN irNext ELSE irNext + 1
       /\ keyIx' = IF code \in ButtonCodes /\ irCodes # << >> THEN KeyOf(code) ELSE keyIx
       /\ repeat' = CASE irCodes = << >> -> repeat
                      [] code \in ButtonCodes -> 0
                      [] code = "REPEAT" -> repeat + 1
                      [] OTHER -> repeat
       /\ irReady' = IF code = "nothing" THEN irReady ELSE Resumed(code)
  /\ UNCHANGED <<irCodes, dumpVars, clkVars, rtcVars, motorVars>>
  /\ UNCHANGED <<sketch, jumper, isTick, uspb, peakScale, lastTime, topTime, ticks, calWrites>>

\* onButton calling the handler name, and what every handler leaves alone.
\* keyIx and repeat are read only when a repeat code arrives, and are
\* followed only in a session that may send one.
Button(name) ==
  /\ pc = "button"
  /\ pc' = AfterButton
  /\ Step(name)
  /\ \E code \in Incoming :
       /\ name = Dispatched(code)
       /\ irNext' = IF code = "nothing" \/ irCodes = << >> THEN irNext ELSE irNext + 1
       /\ keyIx' = IF code \in ButtonCodes /\ irCodes # << >> THEN KeyOf(code) ELSE keyIx
       /\ repeat' = CASE irCodes = << >> -> repeat
                      [] code \in ButtonCodes -> 0
                      [] code = "REPEAT" -> repeat + 1
                      [] OTHER -> repeat
       /\ irReady' = IF code = "nothing" THEN irReady ELSE Resumed(code)
  /\ UNCHANGED <<irCodes, dumpVars, clkVars, rtcVars, motorVars>>
  /\ UNCHANGED <<sketch, jumper, isTick, uspb, peakScale, lastTime, topTime, ticks, calWrites>>

\* a decrement that stops at 0 instead of wrapping to 5
DecStepSaturating(i) == IF i = 0 THEN 0 ELSE i - 1

\* --stepix and ++stepix on a byte, with the handlers' wrap
DecStep(i) == IF ToByte(i - 1) > 5 THEN 5 ELSE ToByte(i - 1)
IncStep(i) == IF ToByte(i + 1) > 5 THEN 0 ELSE ToByte(i + 1)

\* a pause always sent in microseconds, and an advance whose whole-second
\* form is not divided down from tenths
PauseCallMicrosOnly(i) == driveMicros(Mul32(-StepAt(i), UsPerTenth))
AdvanceCallNoDiv(i) ==
  IF StepAt(i) <= OverflowStep
    THEN driveMicros(Mul32(StepAt(i), UsPerTenth))
    ELSE driveSec(StepAt(i))

\* a pause sent with the sign of an advance
PauseCallForward(i) ==
  IF StepAt(i) <= OverflowStep
    THEN driveMicros(Mul32(StepAt(i), UsPerTenth))
    ELSE driveSec(CDiv(StepAt(i), 10))

\* the Clock call of fLeft and of fRight at step index i
PauseCall(i) ==
  IF StepAt(i) <= OverflowStep
    THEN driveMicros(Mul32(-StepAt(i), UsPerTenth))
    ELSE driveSec(CDiv(-StepAt(i), 10))
AdvanceCall(i) ==
  IF StepAt(i) <= OverflowStep
    THEN driveMicros(Mul32(StepAt(i), UsPerTenth))
    ELSE driveSec(CDiv(StepAt(i), 10))

\* no IR code was received in this pass
NoButton ==
  /\ Button("none")
  /\ calls' = << >> /\ wrote' = FALSE
  /\ UNCHANGED ledBeatColor
  /\ UNCHANGED <<stepix, adjustable, speedAdj, adjRTC, runMode, coldPath, bias, beatDelta,
                 settings, eeprom, presses>>

fA ==
  /\ Button("fA")
  /\ stepix' = IF adjustable THEN DecStep(stepix) ELSE stepix
  /\ calls' = << >> /\ wrote' = FALSE
  /\ UNCHANGED ledBeatColor
  /\ UNCHANGED <<adjustable, speedAdj, adjRTC, runMode, coldPath, bias, beatDelta,
                 settings, eeprom, presses>>

fC ==
  /\ Button("fC")
  /\ stepix' = IF adjustable THEN IncStep(stepix) ELSE stepix
  /\ calls' = << >> /\ wrote' = FALSE
  /\ UNCHANGED ledBeatColor
  /\ UNCHANGED <<adjustable, speedAdj, adjRTC, runMode, coldPath, bias, beatDelta,
                 settings, eeprom, presses>>

\* an Up that adds a tenth of a second whatever the step size
fUp_OneTenth ==
  /\ Button("fUp")
  /\ (adjustable /\ irCodes = << >>) => presses < MaxPresses
  /\ speedAdj' = IF adjustable THEN Add32(speedAdj, 1) ELSE speedAdj
  /\ presses' = IF adjustable THEN presses + 1 ELSE presses
  /\ calls' = << >> /\ wrote' = FALSE
  /\ UNCHANGED ledBeatColor
  /\ UNCHANGED <<stepix, adjustable, adjRTC, runMode, coldPath, bias, beatDelta, settings, eeprom>>

fUp ==
  /\ Button("fUp")
  /\ (adjustable /\ irCodes = << >>) => presses < MaxPresses
  /\ speedAdj' = IF adjustable THEN Add32(speedAdj, StepAt(stepix)) ELSE speedAdj
  /\ presses' = IF adjustable THEN presses + 1 ELSE presses
  /\ calls' = << >> /\ wrote' = FALSE
  /\ UNCHANGED ledBeatColor
  /\ UNCHANGED <<stepix, adjustable, adjRTC, runMode, coldPath, bias, beatDelta, settings, eeprom>>

fDown ==
  /\ Button("fDown")
  /\ (adjustable /\ irCodes = << >>) => presses < MaxPresses
  /\ speedAdj' = IF adjustable THEN Sub32(speedAdj, StepAt(stepix)) ELSE speedAdj
  /\ presses' = IF adjustable THEN presses + 1 ELSE presses
  /\ calls' = << >> /\ wrote' = FALSE
  /\ UNCHANGED ledBeatColor
  /\ UNCHANGED <<stepix, adjustable, adjRTC, runMode, coldPath, bias, beatDelta, settings, eeprom>>

\* a pause that does not look at adjustable
fLeft_Unguarded ==
  /\ Button("fLeft")
  /\ calls' = <<PauseCall(stepix)>>
  /\ wrote' = FALSE
  /\ UNCHANGED ledBeatColor
  /\ UNCHANGED <<stepix, adjustable, speedAdj, adjRTC, runMode, coldPath, bias, beatDelta,
                 settings, eeprom, presses>>

fLeft ==
  /\ Button("fLeft")
  /\ calls' = IF adjustable THEN <<PauseCall(stepix)>> ELSE << >>
  /\ wrote' = FALSE
  /\ UNCHANGED ledBeatColor
  /\ UNCHANGED <<stepix, adjustable, speedAdj, adjRTC, runMode, coldPath, bias, beatDelta,
                 settings, eeprom, presses>>

fRight ==
  /\ Button("fRight")
  /\ calls' = IF adjustable THEN <<AdvanceCall(stepix)>> ELSE << >>
  /\ wrote' = FALSE
  /\ UNCHANGED ledBeatColor
  /\ UNCHANGED <<stepix, adjustable, speedAdj, adjRTC, runMode, coldPath, bias, beatDelta,
                 settings, eeprom, presses>>

(***************************************************************************)
(* fPower, fB and fSelect of each sketch                                   *)
(***************************************************************************)
\* b.incrBeatDuration(incr): change the beat duration by incr tenths of a
\* second per day
incrBeatDuration(d, incr) == d + incr

\* Escapement's writeEEPROM(): the structure as filled in from b
Esc_Record(bi, ps, u, d) ==
  [id |-> SETTINGS_TAG, rtcCorrection |-> bi, peakScale |-> ps,
   uspb |-> getBeatDuration(u, d)]

\* RealtimeClockCal's writeEEPROM(): the structure with the tag set
RTC_Record(st) == [st EXCEPT !.id = SETTINGS_TAG]

\* settings.rtcCorrection += speedAdj: the long sum stored in an int
RTC_AddCorrection(corr, adj) == ToInt16(Add32(corr, adj))

\* a commit with the two targets exchanged
BC_fPower_Swapped ==
  /\ sketch = "BendulumClock"
  /\ Button("fPower")
  /\ IF adjustable /\ speedAdj # 0
       THEN /\ IF adjRTC
                 THEN beatDelta' = incrBeatDelta(beatDelta, speedAdj) /\ UNCHANGED bias
                 ELSE bias' = incrBias(bias, speedAdj) /\ UNCHANGED beatDelta
            /\ speedAdj' = 0
            /\ wrote' = TRUE
       ELSE /\ UNCHANGED <<bias, beatDelta, speedAdj>>
            /\ wrote' = FALSE
  /\ adjustable' = ~adjustable
  /\ calls' = << >>
  /\ UNCHANGED ledBeatColor
  /\ UNCHANGED <<stepix, adjRTC, runMode, coldPath, settings, eeprom, presses>>

\* a Power that commits and keeps the pending adjustment
BC_fPower_KeepPending ==
  /\ sketch = "BendulumClock"
  /\ Button("fPower")
  /\ IF adjustable /\ speedAdj # 0
       THEN /\ IF adjRTC
                 THEN bias' = incrBias(bias, speedAdj) /\ UNCHANGED beatDelta
                 ELSE beatDelta' = incrBeatDelta(beatDelta, speedAdj) /\ UNCHANGED bias
            /\ UNCHANGED speedAdj
            /\ wrote' = TRUE
       ELSE /\ UNCHANGED <<bias, beatDelta, speedAdj>>
            /\ wrote' = FALSE
  /\ adjustable' = ~adjustable
  /\ calls' = << >>
  /\ UNCHANGED ledBeatColor
  /\ UNCHANGED <<stepix, adjRTC, runMode, coldPath, settings, eeprom, presses>>

BC_fPower ==
  /\ sketch = "BendulumClock"
  /\ Button("fPower")
  /\ IF adjustable /\ speedAdj # 0
       THEN /\ IF adjRTC
                 THEN bias' = incrBias(bias, speedAdj) /\ UNCHANGED beatDelta
                 ELSE beatDelta' = incrBeatDelta(beatDelta, speedAdj) /\ UNCHANGED bias
            /\ speedAdj' = 0
            /\ wrote' = TRUE
       ELSE /\ UNCHANGED <<bias, beatDelta, speedAdj>>
            /\ wrote' = FALSE
  /\ adjustable' = ~adjustable
  /\ calls' = << >>
  /\ UNCHANGED ledBeatColor
  /\ UNCHANGED <<stepix, adjRTC, runMode, coldPath, settings, eeprom, presses>>

\* a Power that saves the settings whenever it turns adjustments off
Esc_fPower_SaveAlways ==
  /\ sketch = "Escapement"
  /\ Button("fPower")
  /\ IF adjustable
       THEN /\ beatDelta' = incrBeatDuration(beatDelta, speedAdj)
            /\ settings' = Esc_Record(bias, peakScale, uspb, beatDelta')
            /\ eeprom' = settings'
            /\ wrote' = TRUE
            /\ speedAdj' = 0
       ELSE /\ UNCHANGED <<beatDelta, settings, eeprom, speedAdj>>
            /\ wrote' = FALSE
  /\ adjustable' = ~adjustable
  /\ calls' = << >>
  /\ UNCHANGED ledBeatColor
  /\ UNCHANGED <<stepix, adjRTC, runMode, coldPath, bias, presses>>

Esc_fPower ==
  /\ sketch = "Escapement"
  /\ Button("fPower")
  /\ IF adjustable /\ speedAdj # 0
       THEN /\ beatDelta' = incrBeatDuration(beatDelta, speedAdj)
            /\ settings' = Esc_Record(bias, peakScale, uspb, beatDelta')
            /\ eeprom' = settings'
            /\ wrote' = TRUE
            /\ speedAdj' = 0
       ELSE /\ UNCHANGED <<beatDelta, settings, eeprom, speedAdj>>
            /\ wrote' = FALSE
  /\ adjustable' = ~adjustable
  /\ calls' = << >>
  /\ UNCHANGED ledBeatColor
  /\ UNCHANGED <<stepix, adjRTC, runMode, coldPath, bias, presses>>

RTC_fPower ==
  /\ sketch = "RealtimeClockCal"
  /\ Button("fPower")
  /\ IF adjustable /\ speedAdj # 0
       THEN /\ settings' = RTC_Record(
                 [settings EXCEPT !.rtcCorrection =
                    RTC_AddCorrection(settings.rtcCorrection, speedAdj)])
            /\ eeprom' = settings'
            /\ wrote' = TRUE
            /\ speedAdj' = 0
       ELSE /\ UNCHANGED <<settings, eeprom, speedAdj>>
            /\ wrote' = FALSE
  /\ adjustable' = ~adjustable
  /\ calls' = << >>
  /\ UNCHANGED ledBeatColor
  /\ UNCHANGED <<stepix, adjRTC, runMode, coldPath, bias, beatDelta, presses>>

\* a cancel that leaves RTC calibration for WARMSTART
BC_fB_ToWarmstart ==
  /\ sketch = "BendulumClock"
  /\ Button("fB")
  /\ IF adjustable
       THEN /\ calls' = <<cancelDrive>>
            /\ IF adjRTC /\ speedAdj = 0
                 THEN /\ adjRTC' = FALSE
                      /\ runMode' = "WARMSTART"
                      /\ coldPath' = FALSE
                      /\ UNCHANGED speedAdj
                 ELSE /\ speedAdj' = 0
                      /\ UNCHANGED <<adjRTC, runMode, coldPath>>
       ELSE /\ calls' = << >>
            /\ UNCHANGED <<adjRTC, runMode, coldPath, speedAdj>>
  /\ ledBeatColor' = IF adjustable /\ adjRTC /\ speedAdj = 0
                       THEN NORMAL_BEAT_COLOR ELSE ledBeatColor
  /\ wrote' = FALSE
  /\ UNCHANGED <<stepix, adjustable, bias, beatDelta, settings, eeprom, presses>>

\* a cancel that leaves RTC calibration whether or not anything is pending
BC_fB_ExitAlways ==
  /\ sketch = "BendulumClock"
  /\ Button("fB")
  /\ IF adjustable
       THEN /\ calls' = <<cancelDrive>>
            /\ speedAdj' = 0
            /\ IF adjRTC
                 THEN /\ adjRTC' = FALSE
                      /\ runMode' = "RUN"
                      /\ coldPath' = FALSE
                 ELSE UNCHANGED <<adjRTC, runMode, coldPath>>
       ELSE /\ calls' = << >>
            /\ UNCHANGED <<adjRTC, runMode, coldPath, speedAdj>>
  /\ ledBeatColor' = IF adjustable /\ adjRTC THEN NORMAL_BEAT_COLOR ELSE ledBeatColor
  /\ wrote' = FALSE
  /\ UNCHANGED <<stepix, adjustable, bias, beatDelta, settings, eeprom, presses>>

BC_fB ==
  /\ sketch = "BendulumClock"
  /\ Button("fB")
  /\ IF adjustable
       THEN /\ calls' = <<cancelDrive>>
            /\ IF adjRTC /\ speedAdj = 0
                 THEN /\ adjRTC' = FALSE
                      /\ runMode' = "RUN"
                      /\ coldPath' = FALSE
                      /\ ledBeatColor' = NORMAL_BEAT_COLOR
                      /\ UNCHANGED speedAdj
                 ELSE /\ speedAdj' = 0
                      /\ UNCHANGED <<adjRTC, runMode, coldPath, ledBeatColor>>
       ELSE /\ calls' = << >>
            /\ UNCHANGED <<adjRTC, runMode, coldPath, speedAdj, ledBeatColor>>
  /\ wrote' = FALSE
  /\ UNCHANGED <<stepix, adjustable, bias, beatDelta, settings, eeprom, presses>>

Esc_fB ==
  /\ sketch = "Escapement"
  /\ Button("fB")
  /\ calls' = IF adjustable THEN <<cancelDrive>> ELSE << >>
  /\ speedAdj' = IF adjustable THEN 0 ELSE speedAdj
  /\ wrote' = FALSE
  /\ UNCHANGED ledBeatColor
  /\ UNCHANGED <<stepix, adjustable, adjRTC, runMode, coldPath, bias, beatDelta,
                 settings, eeprom, presses>>

RTC_fB ==
  /\ sketch = "RealtimeClockCal"
  /\ Button("fB")
  /\ calls' = IF adjustable THEN <<cancelDrive>> ELSE << >>
  /\ speedAdj' = IF adjustable THEN 0 ELSE speedAdj
  /\ wrote' = FALSE
  /\ UNCHANGED ledBeatColor
  /\ UNCHANGED <<stepix, adjustable, adjRTC, runMode, coldPath, bias, beatDelta,
                 settings, eeprom, presses>>

\* a Select that does not look at adjustable
BC_fSelect_Unguarded ==
  /\ sketch = "BendulumClock"
  /\ Button("fSelect")
  /\ IF adjRTC
       THEN adjRTC' = FALSE /\ runMode' = "WARMSTART"
       ELSE adjRTC' = TRUE /\ runMode' = "CALRTC"
  /\ ledBeatColor' = IF adjRTC THEN WARM_BEAT_COLOR ELSE RTC_BEAT_COLOR
  /\ coldPath' = FALSE
  /\ speedAdj' = 0
  /\ adjustable' = FALSE
  /\ calls' = << >> /\ wrote' = FALSE
  /\ UNCHANGED <<stepix, bias, beatDelta, settings, eeprom, presses>>

\* a Select that keeps the pending adjustment
BC_fSelect_KeepPending ==
  /\ sketch = "BendulumClock"
  /\ Button("fSelect")
  /\ IF adjustable
       THEN /\ IF adjRTC
                 THEN adjRTC' = FALSE /\ runMode' = "WARMSTART"
                 ELSE adjRTC' = TRUE /\ runMode' = "CALRTC"
            /\ ledBeatColor' = IF adjRTC THEN WARM_BEAT_COLOR ELSE RTC_BEAT_COLOR
            /\ coldPath' = FALSE
            /\ adjustable' = FALSE
       ELSE UNCHANGED <<adjRTC, runMode, coldPath, adjustable, ledBeatColor>>
  /\ UNCHANGED speedAdj
  /\ calls' = << >> /\ wrote' = FALSE
  /\ UNCHANGED <<stepix, bias, beatDelta, settings, eeprom, presses>>

BC_fSelect ==
  /\ sketch = "BendulumClock"
  /\ Button("fSelect")
  /\ IF adjustable
       THEN /\ IF adjRTC
                 THEN /\ adjRTC' = FALSE /\ runMode' = "WARMSTART"
                      /\ ledBeatColor' = WARM_BEAT_COLOR
                 ELSE /\ adjRTC' = TRUE /\ runMode' = "CALRTC"
                      /\ ledBeatColor' = RTC_BEAT_COLOR
            /\ coldPath' = FALSE
            /\ speedAdj' = 0
            /\ adjustable' = FALSE
       ELSE UNCHANGED <<adjRTC, runMode, coldPath, speedAdj, adjustable, ledBeatColor>>
  /\ calls' = << >> /\ wrote' = FALSE
  /\ UNCHANGED <<stepix, bias, beatDelta, settings, eeprom, presses>>

Esc_fSelect ==
  /\ sketch = "Escapement"
  /\ Button("fSelect")
  /\ IF adjustable
       THEN runMode' = "SCALING" /\ adjustable' = FALSE /\ ledBeatColor' = RGB_LED_YELLOW
       ELSE UNCHANGED <<runMode, adjustable, ledBeatColor>>
  /\ calls' = << >> /\ wrote' = FALSE
  /\ UNCHANGED <<stepix, speedAdj, adjRTC, coldPath, bias, beatDelta, settings,
                 eeprom, presses>>

RTC_fSelect ==
  /\ sketch = "RealtimeClockCal"
  /\ Button("fSelect")
  /\ calls' = << >> /\ wrote' = FALSE
  /\ UNCHANGED ledBeatColor
  /\ UNCHANGED <<stepix, adjustable, speedAdj, adjRTC, runMode, coldPath, bias,
                 beatDelta, settings, eeprom, presses>>

(***************************************************************************)
(* The run-mode switch that ends a pass of loop()                          *)
(***************************************************************************)
BC_mode ==
  /\ sketch = "BendulumClock" /\ pc = "mode"
  /\ ledBeatColor' = ModeColor(runMode, ledBeatColor)
  /\ pc' = "beat"
  /\ calls' = << >> /\ wrote' = FALSE
  /\ Step("mode")
  /\ UNCHANGED <<remoteVars, dumpVars, clkVars, rtcVars, motorVars>>
  /\ UNCHANGED <<sketch, jumper, stepix, adjustable, speedAdj, adjRTC, runMode, coldPath,
                 isTick, bias, beatDelta, uspb, peakScale, settings, eeprom, presses,
                 lastTime, topTime, ticks, calWrites>>

\* a run-mode switch that writes the settings on every tick
Esc_mode_WriteAlways ==
  /\ sketch = "Escapement" /\ pc = "mode"
  /\ IF isTick
       THEN /\ settings' = Esc_Record(bias, peakScale, uspb, beatDelta)
            /\ eeprom' = settings'
            /\ wrote' = TRUE
            /\ calWrites' = calWrites + 1
       ELSE /\ UNCHANGED <<settings, eeprom, calWrites>>
            /\ wrote' = FALSE
  /\ ledBeatColor' = IF isTick /\ runMode = "CALFINISH" THEN NORMAL_BEAT_COLOR ELSE ledBeatColor
  /\ pc' = "beat"
  /\ calls' = << >>
  /\ Step("mode")
  /\ UNCHANGED <<remoteVars, dumpVars, clkVars, rtcVars, motorVars>>
  /\ UNCHANGED <<sketch, jumper, stepix, adjustable, speedAdj, adjRTC, runMode, coldPath,
                 isTick, bias, beatDelta, uspb, peakScale, presses,
                 lastTime, topTime, ticks>>

Esc_mode ==
  /\ sketch = "Escapement" /\ pc = "mode"
  /\ IF isTick /\ runMode = "CALFINISH"
       THEN /\ settings' = Esc_Record(bias, peakScale, uspb, beatDelta)
            /\ eeprom' = settings'
            /\ wrote' = TRUE
            /\ calWrites' = calWrites + 1
       ELSE /\ UNCHANGED <<settings, eeprom, calWrites>>
            /\ wrote' = FALSE
  /\ ledBeatColor' = IF isTick /\ runMode = "CALFINISH" THEN NORMAL_BEAT_COLOR ELSE ledBeatColor
  /\ pc' = "beat"
  /\ calls' = << >>
  /\ Step("mode")
  /\ UNCHANGED <<remoteVars, dumpVars, clkVars, rtcVars, motorVars>>
  /\ UNCHANGED <<sketch, jumper, stepix, adjustable, speedAdj, adjRTC, runMode, coldPath,
                 isTick, bias, beatDelta, uspb, peakScale, presses,
                 lastTime, topTime, ticks>>

Next ==
  \/ BC_setup \/ Esc_setup \/ RTC_setup
  \/ BC_beat \/ Esc_beat \/ RTC_loop
  \/ NoButton \/ fA \/ fC \/ fUp \/ fDown \/ fLeft \/ fRight
  \/ BC_fPower \/ Esc_fPower \/ RTC_fPower
  \/ BC_fB \/ Esc_fB \/ RTC_fB
  \/ BC_fSelect \/ Esc_fSelect \/ RTC_fSelect
  \/ BC_mode \/ Esc_mode

Spec == Init /\ [][Next]_vars

(***************************************************************************)
(* Sessions of the remote: the codes of a sitting at the remote arrive in  *)
(* order, any number of passes of loop() apart                             *)
(***************************************************************************)
\* repeat codes sent while a button is held
HeldRepeats == 5

RECURSIVE Times(_, _)
Times(code, n) == IF n = 0 THEN << >> ELSE <<code>> \o Times(code, n - 1)

\* the header's -2:48 example in its long form and in its short form, and a
\* short form with the one-second presses the other way
LongForm ==
  <<"fPower">> \o Times("fDown", 2) \o <<"fA">> \o Times("fDown", 4)
               \o <<"fA">> \o Times("fDown", 8)
ShortForm ==
  <<"fPower">> \o Times("fDown", 3) \o <<"fA", "fUp", "fA">> \o Times("fDown", 2)
ShortFormUp ==
  <<"fPower">> \o Times("fDown", 3) \o <<"fA", "fUp", "fA">> \o Times("fUp", 2)

\* Up and Down at the same step, then Power off
UpDownOff == <<"fPower", "fUp", "fDown", "fPower">>
\* an adjustment entered and left pending when Select is pressed, then
\* adjustments turned on and off again
UpSelectOnOff == <<"fPower", "fUp", "fSelect", "fPower", "fPower">>
\* an adjustment entered and committed, then adjustments turned on and off
\* again
UpOffOnOff == <<"fPower", "fUp", "fPower", "fPower", "fPower">>
\* a code the remote does not generate, between two button codes
StrayCode == <<"fPower", "other", "fUp">>

\* a button tapped with adjustments on, and a button held with adjustments
\* off and on
TapOn(k) == <<"fPower", k>>
HeldOff(k) == <<k>> \o Times("REPEAT", HeldRepeats)
HeldOn(k) == <<"fPower", k>> \o Times("REPEAT", HeldRepeats)
\* repeat codes before any button code since power-up
RepeatsFirst == Times("REPEAT", HeldRepeats)

\* BendulumClock dispatches through its remote library, whose treatment of
\* repeat and stray codes is not the sketches' onButton: it gets neither
Sessions(s) ==
  {LongForm, ShortForm, ShortFormUp, UpDownOff, UpSelectOnOff, UpOffOnOff}
    \cup {TapOn(k) : k \in ButtonCodes}
    \cup (IF s = "BendulumClock" THEN {}
          ELSE {HeldOff(k) : k \in ButtonCodes} \cup {HeldOn(k) : k \in ButtonCodes}
                 \cup {StrayCode, RepeatsFirst})

\* EEPROM images with our tag and no beat duration, and with a beat duration
\* under another tag
NoBeatImage == [ValidImage EXCEPT !.uspb = 0]
ForeignImage == [ValidImage EXCEPT !.id = 4660]
\* what RealtimeClockCal leaves in an erased EEPROM: tag and correction only
RtcOnlyImage == [ErasedImage EXCEPT !.id = SETTINGS_TAG, !.rtcCorrection = -50]
StoredImages == Images \cup {NoBeatImage, ForeignImage, RtcOnlyImage}

RemoteInit ==
  /\ sketch \in Sketches
  /\ jumper \in BOOLEAN
  /\ eeprom \in StoredImages
  /\ irCodes \in Sessions(sketch)
  /\ irNext = 1 /\ keyIx = 0 /\ repeat = 0 /\ irReady = TRUE
  /\ pc = "setup"
  /\ stepix = 3 /\ adjustable = FALSE /\ speedAdj = 0 /\ adjRTC = FALSE
  /\ runMode = IF sketch = "Escapement" THEN DefaultRunMode ELSE "NONE"
  /\ coldPath = FALSE /\ isTick = FALSE
  /\ bias = 0 /\ beatDelta = 0 /\ uspb = 0 /\ peakScale = DefaultPeakScale
  /\ settings = ZeroSettings
  /\ calls = << >> /\ wrote = FALSE /\ presses = 0
  /\ lastTime = 0 /\ topTime = 0 /\ ticks = 0 /\ calWrites = 0
  /\ ledBeatColor = IF sketch = "Escapement" THEN RGB_LED_YELLOW ELSE RGB_LED_BLACK
  /\ table = << >> /\ bix = 0 /\ sums = ZeroSums /\ report = NoReport
  /\ clkTotal = 0 /\ clkShown = 0
  /\ clkDriven = 0 /\ clkCalls = 0 /\ clkPause = 0 /\ clkSince = 0 /\ clkMoved = FALSE
  /\ rtcFirst = 0 /\ rtcSum = 0
  /\ tick = TRUE /\ pins = AllLow /\ pulses = << >> /\ steps = 0
  /\ op = "power-up"
  /\ pre = Snapshot

RemoteSpec == RemoteInit /\ [][Next]_vars

(***************************************************************************)
(* The dump sketches                                                       *)
(*   DumpEeprom       src/DumpEeprom/DumpEeprom.ino                        *)
(*   DumpCalibration  src/unnamed/part_001                                 *)
(* setup() reads the settings from EEPROM and, for a temperature           *)
(* compensated clock, sums over the buckets of the calibration table and   *)
(* prints a least-squares line.  The sketches compute in float; a float    *)
(* is kept here as a fraction n/d in lowest terms, with d = 0 for the      *)
(* infinities (n = 1, n = -1) and NaN (n = 0).  The tables are small       *)
(* enough for every sum and product to be exact in a float (below 2^24),   *)
(* so only the two divisions of the fit could round.                       *)
(***************************************************************************)
DumpSketches == {"DumpEeprom", "DumpCalibration"}

\* the library's table: one bucket per half degree from TEMP_MIN degrees C
\* up, a bucket being complete once its smoothing exceeds TGT_SMOOTHING
TEMP_STEPS == 3
TEMP_MIN == 1
TGT_SMOOTHING == 2

Abs(a) == IF a < 0 THEN -a ELSE a
Sign(a) == IF a < 0 THEN -1 ELSE IF a > 0 THEN 1 ELSE 0

RECURSIVE GCD(_, _)
GCD(a, b) == IF b = 0 THEN a ELSE GCD(b, a % b)

Norm(n, d) ==
  IF d = 0
    THEN [n |-> Sign(n), d |-> 0]
    ELSE LET g == GCD(Abs(n), Abs(d))
         IN  [n |-> Sign(d) * (n \div g), d |-> Abs(d) \div g]

\* conversion of an int or long to float, and float +, -, * and /
FInt(k) == [n |-> k, d |-> 1]
FAdd(a, b) ==
  IF a.d = 0 /\ b.d = 0
    THEN (IF a.n = b.n THEN a ELSE [n |-> 0, d |-> 0])
    ELSE Norm(a.n * b.d + b.n * a.d, a.d * b.d)
FNeg(a) == [n |-> -a.n, d |-> a.d]
FSub(a, b) == FAdd(a, FNeg(b))
FMul(a, b) == Norm(a.n * b.n, a.d * b.d)
FDiv(a, b) == Norm(a.n * b.d, a.d * b.n)

\* Serial.print(float, digits): "nan", "inf", or the value rounded half up
\* in magnitude to so many decimals, given here in units of the last decimal
Pow10(digits) == IF digits = 2 THEN 100 ELSE 10000
PrintFloat(f, digits) ==
  IF f.d = 0
    THEN [form |-> IF f.n = 0 THEN "nan" ELSE "inf", value |-> 0]
    ELSE LET m == Abs(f.n)
             whole == m \div f.d
             rest == m % f.d
             last == (2 * rest * Pow10(digits) + f.d) \div (2 * f.d)
         IN  [form |-> "number",
              value |-> Sign(f.n) * (whole * Pow10(digits) + last)]

\* values of a bucket's fields in the EEPROM image: uspb, curSmoothing of
\* DumpEeprom's settings_t, temp (degrees C times 256) of DumpCalibration's
UspbValues == {0, 100, 110, 120}
SmoothingValues == {TGT_SMOOTHING, TGT_SMOOTHING + 1}
TempValues == {0, 256, 512}

Buckets(s) ==
  IF s = "DumpEeprom"
    THEN [uspb : UspbValues, curSmoothing : SmoothingValues, temp : {0}]
    ELSE [uspb : UspbValues, curSmoothing : {0}, temp : TempValues]

Tables(s) == [compensated : BOOLEAN, bucket : [1..TEMP_STEPS -> Buckets(s)]]

\* one more point (x, y) in the sums
AddPoint(sm, x, y) ==
  [xSum  |-> FAdd(sm.xSum, x),
   ySum  |-> FAdd(sm.ySum, y),
   xxSum |-> FAdd(sm.xxSum, FMul(x, x)),
   xySum |-> FAdd(sm.xySum, FMul(x, y)),
   count |-> sm.count + 1]

\* x of bucket i (from 0) in DumpEeprom: ((TEMP_MIN << 1) + i) << 7 as an int
DE_X(i) == ToInt16((2 * TEMP_MIN + i) * 128)

\* one pass of the summing loop for bucket i (from 0) holding b
DE_Sum(sm, i, b) ==
  IF b.curSmoothing > TGT_SMOOTHING
    THEN AddPoint(sm, FInt(DE_X(i)), FInt(b.uspb))
    ELSE sm
DC_Sum(sm, i, b) ==
  IF b.uspb > 0
    THEN AddPoint(sm, FDiv(FInt(b.temp), FInt(256)), FInt(b.uspb))
    ELSE sm

\* a slope that leaves count out of the two products
SlopeNoCount(sm) ==
  FDiv(FSub(sm.xySum, FMul(sm.xSum, sm.ySum)), FSub(sm.xxSum, FMul(sm.xSum, sm.xSum)))

\* (count * xySum - xSum * ySum) / (count * xxSum - xSum * xSum)
SlopeOf(sm) ==
  FDiv(FSub(FMul(FInt(sm.count), sm.xySum), FMul(sm.xSum, sm.ySum)),
       FSub(FMul(FInt(sm.count), sm.xxSum), FMul(sm.xSum, sm.xSum)))

\* (ySum - slope * xSum) / count
InterceptOf(sm, slope) == FDiv(FSub(sm.ySum, FMul(slope, sm.xSum)), FInt(sm.count))

FitLine(sm, slope, digits) ==
  [kind |-> "fit", count |-> sm.count,
   slope |-> slope, intercept |-> InterceptOf(sm, slope),
   slopeText |-> PrintFloat(slope, digits),
   interceptText |-> PrintFloat(InterceptOf(sm, slope), digits)]

\* what DumpEeprom prints after the loop
DE_Fit(sm) ==
  IF sm.count >= 1
    THEN FitLine(sm, IF sm.count > 1 THEN SlopeOf(sm) ELSE FInt(0), 2)
    ELSE NoReport

\* what DumpCalibration prints after the loop
DC_Fit(sm) ==
  IF sm.count > 1
    THEN FitLine(sm, SlopeOf(sm), 4)
    ELSE [kind |-> "not enough"]

\* the variables of the clock sketches, which a dump sketch does not have
clockSketchVars ==
  <<jumper, stepix, adjustable, speedAdj, adjRTC, runMode, coldPath, isTick, bias,
    beatDelta, uspb, peakScale, settings, eeprom, calls, wrote, presses, lastTime,
    topTime, ticks, calWrites, ledBeatColor, pre>>

DumpInit ==
  /\ sketch \in DumpSketches
  /\ table \in Tables(sketch)
  /\ pc = "setup"
  /\ bix = 0
  /\ sums = ZeroSums
  /\ report = NoReport
  /\ jumper = FALSE /\ eeprom = ErasedImage
  /\ stepix = 3 /\ adjustable = FALSE /\ speedAdj = 0 /\ adjRTC = FALSE
  /\ runMode = "NONE" /\ coldPath = FALSE /\ isTick = FALSE
  /\ bias = 0 /\ beatDelta = 0 /\ uspb = 0 /\ peakScale = DefaultPeakScale
  /\ settings = ZeroSettings
  /\ calls = << >> /\ wrote = FALSE /\ presses = 0
  /\ lastTime = 0 /\ topTime = 0 /\ ticks = 0 /\ calWrites = 0
  /\ ledBeatColor = RGB_LED_BLACK
  /\ irCodes = << >> /\ irNext = 1 /\ keyIx = 0 /\ repeat = 0 /\ irReady = TRUE
  /\ clkTotal = 0 /\ clkShown = 0
  /\ clkDriven = 0 /\ clkCalls = 0 /\ clkPause = 0 /\ clkSince = 0 /\ clkMoved = FALSE
  /\ rtcFirst = 0 /\ rtcSum = 0
  /\ tick = TRUE /\ pins = AllLow /\ pulses = << >> /\ steps = 0
  /\ op = "power-up"
  /\ pre = Snapshot

\* setup() up to the summing loop: the header line and the table
Dump_header ==
  /\ sketch \in DumpSketches /\ pc = "setup"
  /\ IF table.compensated
       THEN pc' = "sum" /\ report' = report
       ELSE pc' = "done" /\ report' = [kind |-> "not compensated"]
  /\ op' = "header"
  /\ UNCHANGED <<sketch, table, bix, sums, remoteVars, clkVars, rtcVars, motorVars, clockSketchVars>>

\* one pass of the summing loop
DE_bucket ==
  /\ sketch = "DumpEeprom" /\ pc = "sum" /\ bix < TEMP_STEPS
  /\ sums' = DE_Sum(sums, bix, table.bucket[bix + 1])
  /\ bix' = bix + 1
  /\ op' = "bucket"
  /\ UNCHANGED <<sketch, pc, table, report, remoteVars, clkVars, rtcVars, motorVars, clockSketchVars>>

DC_bucket ==
  /\ sketch = "DumpCalibration" /\ pc = "sum" /\ bix < TEMP_STEPS
  /\ sums' = DC_Sum(sums, bix, table.bucket[bix + 1])
  /\ bix' = bix + 1
  /\ op' = "bucket"
  /\ UNCHANGED <<sketch, pc, table, report, remoteVars, clkVars, rtcVars, motorVars, clockSketchVars>>

\* the fit after the loop
DE_fit ==
  /\ sketch = "DumpEeprom" /\ pc = "sum" /\ bix = TEMP_STEPS
  /\ report' = DE_Fit(sums)
  /\ pc' = "done"
  /\ op' = "fit"
  /\ UNCHANGED <<sketch, table, bix, sums, remoteVars, clkVars, rtcVars, motorVars, clockSketchVars>>

DC_fit ==
  /\ sketch = "DumpCalibration" /\ pc = "sum" /\ bix = TEMP_STEPS
  /\ report' = DC_Fit(sums)
  /\ pc' = "done"
  /\ op' = "fit"
  /\ UNCHANGED <<sketch, table, bix, sums, remoteVars, clkVars, rtcVars, motorVars, clockSketchVars>>

DumpNext == Dump_header \/ DE_bucket \/ DC_bucket \/ DE_fit \/ DC_fit

DumpSpec == DumpInit /\ [][DumpNext]_vars

(***************************************************************************)
(* The Clock object, as the header of BendulumClock.ino documents it:      *)
(* c.driveMicros() adds the microseconds it is passed to its running       *)
(* total and, when the total has reached half a second, moves the display  *)
(* forward by one second and takes one second off the total.  Followed     *)
(* here through the beats of loop() and the pauses of fLeft.               *)
(***************************************************************************)
MaxDrives == 12
MaxPauses == 2
OneSecond == 1000000

\* beat durations e.beat() returns, and the step sizes a pause is asked at
ClockBeats == {999750, 1000000, 1000250}
PauseSteps == {0, 1, 2}

\* c.driveMicros(n) on a Clock with the given total and seconds shown
Drive(total, shown, n) ==
  IF total + n >= HalfSecond
    THEN [total |-> total + n - OneSecond, shown |-> shown + 1]
    ELSE [total |-> total + n, shown |-> shown]

ClockInit ==
  /\ sketch = "BendulumClock"
  /\ pc = "clock"
  /\ clkTotal = 0 /\ clkShown = 0
  /\ clkDriven = 0 /\ clkCalls = 0 /\ clkPause = 0 /\ clkSince = 0 /\ clkMoved = FALSE
  /\ rtcFirst = 0 /\ rtcSum = 0
  /\ tick = TRUE /\ pins = AllLow /\ pulses = << >> /\ steps = 0
  /\ jumper = FALSE /\ eeprom = ValidImage
  /\ stepix = 3 /\ adjustable = TRUE /\ speedAdj = 0 /\ adjRTC = FALSE
  /\ runMode = "RUN" /\ coldPath = FALSE /\ isTick = FALSE
  /\ bias = 0 /\ beatDelta = 0 /\ uspb = 0 /\ peakScale = DefaultPeakScale
  /\ settings = ZeroSettings
  /\ calls = << >> /\ wrote = FALSE /\ presses = 0
  /\ lastTime = 0 /\ topTime = 0 /\ ticks = 0 /\ calWrites = 0
  /\ ledBeatColor = NORMAL_BEAT_COLOR
  /\ irCodes = << >> /\ irNext = 1 /\ keyIx = 0 /\ repeat = 0 /\ irReady = TRUE
  /\ table = << >> /\ bix = 0 /\ sums = ZeroSums /\ report = NoReport
  /\ op = "power-up"
  /\ pre = Snapshot

\* loop(): c.driveMicros(e.beat())
Clock_beat ==
  /\ pc = "clock" /\ clkCalls < MaxDrives
  /\ \E d \in ClockBeats :
       LET after == Drive(clkTotal, clkShown, d)
       IN  /\ clkTotal' = after.total
           /\ clkShown' = after.shown
           /\ clkDriven' = clkDriven + d
           /\ clkSince' = clkSince + d
           /\ clkMoved' = (clkMoved \/ after.shown # clkShown)
           /\ calls' = <<driveMicros(d)>>
  /\ clkCalls' = clkCalls + 1
  /\ op' = "beat"
  /\ UNCHANGED <<sketch, pc, clkPause, stepix, remoteVars, dumpVars, rtcVars, motorVars>>
  /\ UNCHANGED <<jumper, adjustable, speedAdj, adjRTC, runMode, coldPath, isTick, bias,
                 beatDelta, uspb, peakScale, settings, eeprom, wrote, presses, lastTime,
                 topTime, ticks, calWrites, ledBeatColor, pre>>

\* fLeft with adjustments on, at one of the step sizes sent in microseconds
Clock_pause ==
  /\ pc = "clock" /\ clkCalls < MaxDrives /\ presses < MaxPauses
  /\ \E i \in PauseSteps :
       LET after == Drive(clkTotal, clkShown, PauseCall(i).arg)
       IN  /\ PauseCall(i).call = "driveMicros"
           /\ stepix' = i
           /\ clkTotal' = after.total
           /\ clkShown' = after.shown
           /\ clkDriven' = clkDriven + PauseCall(i).arg
           /\ clkPause' = StepAt(i) * UsPerTenth
           /\ clkMoved' = (after.shown # clkShown)
           /\ calls' = <<PauseCall(i)>>
  /\ clkSince' = 0
  /\ clkCalls' = clkCalls + 1
  /\ presses' = presses + 1
  /\ op' = "fLeft"
  /\ UNCHANGED <<sketch, pc, remoteVars, dumpVars, rtcVars, motorVars>>
  /\ UNCHANGED <<jumper, adjustable, speedAdj, adjRTC, runMode, coldPath, isTick, bias,
                 beatDelta, uspb, peakScale, settings, eeprom, wrote, lastTime,
                 topTime, ticks, calWrites, ledBeatColor, pre>>

ClockNext == Clock_beat \/ Clock_pause

ClockSpec == ClockInit /\ [][ClockNext]_vars

(***************************************************************************)
(* RealtimeClockCal left running: passes of loop() with no button pressed  *)
(***************************************************************************)
MaxPasses == 6

RtcInit == Init /\ sketch = "RealtimeClockCal"

RTC_running == RTC_pass(MaxPasses)

RtcNext == RTC_setup \/ RTC_running \/ NoButton

RtcSpec == RtcInit /\ [][RtcNext]_vars

(***************************************************************************)
(* DriveClock: loop() calling stepClock(), one digitalWrite at a time      *)
(***************************************************************************)
MaxSteps == 30

\* power-up: the port registers are clear and tick is true
DriveClockInit ==
  /\ sketch = "DriveClock"
  /\ pc = "setup"
  /\ tick = TRUE /\ pins = AllLow /\ pulses = << >> /\ steps = 0
  /\ clkTotal = 0 /\ clkShown = 0
  /\ clkDriven = 0 /\ clkCalls = 0 /\ clkPause = 0 /\ clkSince = 0 /\ clkMoved = FALSE
  /\ rtcFirst = 0 /\ rtcSum = 0
  /\ jumper = FALSE /\ eeprom = ErasedImage
  /\ stepix = 3 /\ adjustable = FALSE /\ speedAdj = 0 /\ adjRTC = FALSE
  /\ runMode = "RUN" /\ coldPath = FALSE /\ isTick = FALSE
  /\ bias = 0 /\ beatDelta = 0 /\ uspb = 0 /\ peakScale = DefaultPeakScale
  /\ settings = ZeroSettings
  /\ calls = << >> /\ wrote = FALSE /\ presses = 0
  /\ lastTime = 0 /\ topTime = 0 /\ ticks = 0 /\ calWrites = 0
  /\ ledBeatColor = RGB_LED_BLACK
  /\ irCodes = << >> /\ irNext = 1 /\ keyIx = 0 /\ repeat = 0 /\ irReady = TRUE
  /\ table = << >> /\ bix = 0 /\ sums = ZeroSums /\ report = NoReport
  /\ op = "power-up"
  /\ pre = Snapshot

\* a stepClock that does not switch from tick to tock
DC_return_NoSwitch ==
  /\ sketch = "DriveClock" /\ pc = "led off"
  /\ pins' = digitalWrite(pins, LED_PIN, "LOW")
  /\ tick' = tick
  /\ steps' = steps + 1
  /\ pc' = "loop"
  /\ op' = "stepClock"
  /\ UNCHANGED pulses
  /\ UNCHANGED <<sketch, remoteVars, dumpVars, clkVars, rtcVars, clockSketchVars>>

\* setup(): the three pins are outputs and LOW
DC_setup ==
  /\ sketch = "DriveClock" /\ pc = "setup"
  /\ pins' = digitalWrite(digitalWrite(digitalWrite(pins, LED_PIN, "LOW"),
                                       TICK_PIN, "LOW"), TOCK_PIN, "LOW")
  /\ pc' = "loop"
  /\ op' = "setup"
  /\ UNCHANGED <<tick, pulses, steps>>
  /\ UNCHANGED <<sketch, remoteVars, dumpVars, clkVars, rtcVars, clockSketchVars>>

\* loop() calls stepClock(): the LED goes on
DC_call ==
  /\ sketch = "DriveClock" /\ pc = "loop" /\ steps < MaxSteps
  /\ pins' = digitalWrite(pins, LED_PIN, "HIGH")
  /\ pc' = "led on"
  /\ op' = "call"
  /\ UNCHANGED <<tick, pulses, steps>>
  /\ UNCHANGED <<sketch, remoteVars, dumpVars, clkVars, rtcVars, clockSketchVars>>

\* the pulse starts on the tick pin or on the tock pin
DC_raise ==
  /\ sketch = "DriveClock" /\ pc = "led on"
  /\ LET pin == IF tick THEN TICK_PIN ELSE TOCK_PIN
     IN  /\ pins' = digitalWrite(pins, pin, "HIGH")
         /\ pulses' = Append(pulses, pin)
  /\ pc' = "pulse"
  /\ op' = "raise"
  /\ UNCHANGED <<tick, steps>>
  /\ UNCHANGED <<sketch, remoteVars, dumpVars, clkVars, rtcVars, clockSketchVars>>

\* delay(pulseTime) is over and the pulse ends
DC_lower ==
  /\ sketch = "DriveClock" /\ pc = "pulse"
  /\ pins' = digitalWrite(pins, IF tick THEN TICK_PIN ELSE TOCK_PIN, "LOW")
  /\ pc' = "led off"
  /\ op' = "lower"
  /\ UNCHANGED <<tick, pulses, steps>>
  /\ UNCHANGED <<sketch, remoteVars, dumpVars, clkVars, rtcVars, clockSketchVars>>

\* the LED goes off, tick is switched and stepClock returns
DC_return ==
  /\ sketch = "DriveClock" /\ pc = "led off"
  /\ pins' = digitalWrite(pins, LED_PIN, "LOW")
  /\ tick' = ~tick
  /\ steps' = steps + 1
  /\ pc' = "loop"
  /\ op' = "stepClock"
  /\ UNCHANGED pulses
  /\ UNCHANGED <<sketch, remoteVars, dumpVars, clkVars, rtcVars, clockSketchVars>>

DriveClockNext == DC_setup \/ DC_call \/ DC_raise \/ DC_lower \/ DC_return

DriveClockSpec == DriveClockInit /\ [][DriveClockNext]_vars

(***************************************************************************)
(* What the claims speak of                                                *)
(***************************************************************************)
OtherButtons == {"fA", "fB", "fC", "fUp", "fDown", "fLeft", "fRight", "fSelect"}

\* the last step was a commit: Power pressed with adjustments on and an
\* adjustment pending
Committed == op = "fPower" /\ pre.adjustable /\ pre.speedAdj # 0

\* the field a commit is aimed at, now and before the last step
Target ==
  CASE sketch = "BendulumClock"    -> IF pre.adjRTC THEN bias ELSE beatDelta
    [] sketch = "Escapement"       -> beatDelta
    [] sketch = "RealtimeClockCal" -> settings.rtcCorrection
TargetBefore ==
  CASE sketch = "BendulumClock"    -> IF pre.adjRTC THEN pre.bias ELSE pre.beatDelta
    [] sketch = "Escapement"       -> pre.beatDelta
    [] sketch = "RealtimeClockCal" -> pre.settings.rtcCorrection

\* persisted settings, and what the sketch holds of them, as before the last step
SettingsKept ==
  /\ bias = pre.bias /\ beatDelta = pre.beatDelta
  /\ uspb = pre.uspb /\ peakScale = pre.peakScale
  /\ settings = pre.settings /\ eeprom = pre.eeprom
  /\ ~wrote

\* a Clock drive call in tenths of a second
Tenths(c) == IF c.call = "driveMicros" THEN c.arg \div UsPerTenth ELSE c.arg * 10
WholeTenths(c) == c.call = "driveMicros" => c.arg % UsPerTenth = 0

\* C1: Power(on), one Up at step index i, Power(off) adds exactly stepSize[i]
\* to the targeted field and leaves speedAdj at 0; a commit adds the pending
\* adjustment to the targeted field.
C1_CommitAddsPending ==
  Committed => (Target = TargetBefore + pre.speedAdj /\ speedAdj = 0)

C3_CancelClears == op = "fB" => (speedAdj = 0 /\ SettingsKept)

\* C4 as claimed: a cancel taken with adjustments on zeroes the pending
\* adjustment and requests cancelDrive without changing the run mode.
C4_CancelKeepsRunMode ==
  (op = "fB" /\ pre.adjustable) =>
    (speedAdj = 0 /\ calls = <<cancelDrive>> /\ runMode = pre.runMode)
\* C4 amended: a cancel taken with adjustments on leaves the pending
\* adjustment at 0 and requests cancelDrive; the run mode is unchanged
\* unless RTC calibration is on with nothing pending, when it becomes RUN;
\* with adjustments off a cancel changes nothing and requests nothing.
C4_CancelRunMode ==
  op = "fB" =>
    IF pre.adjustable
      THEN /\ speedAdj = 0
           /\ calls = <<cancelDrive>>
           /\ runMode = IF pre.adjRTC /\ pre.speedAdj = 0 THEN "RUN" ELSE pre.runMode
      ELSE /\ speedAdj = pre.speedAdj /\ runMode = pre.runMode /\ calls = << >>
C4_Witness ==
  /\ op = "fB" /\ pre.adjustable /\ pre.speedAdj # 0
  /\ pre.runMode = "CALRTC" /\ runMode = "CALRTC"

\* C5: in BendulumClock a cancel taken with adjustments on, in RTC
\* calibration and with nothing pending ends RTC calibration (adjRTC false,
\* run mode RUN); with an adjustment pending it only zeroes it and the clock
\* stays in RTC calibration; cancelDrive is requested in both cases.
C5_CancelEndsRTC ==
  (sketch = "BendulumClock" /\ op = "fB" /\ pre.adjustable /\ pre.adjRTC) =>
    /\ calls = <<cancelDrive>>
    /\ IF pre.speedAdj = 0
         THEN ~adjRTC /\ runMode = "RUN" /\ speedAdj = 0
         ELSE adjRTC /\ runMode = "CALRTC" /\ pre.runMode = "CALRTC" /\ speedAdj = 0
C5_Witness ==
  /\ sketch = "BendulumClock" /\ op = "fB" /\ pre.adjustable /\ pre.adjRTC
  /\ pre.speedAdj = 0 /\ pre.runMode = "CALRTC" /\ runMode = "RUN" /\ ~adjRTC

\* C6: in the sketches that write the EEPROM themselves, persisted settings
\* are written only by the run-mode switch in CALFINISH and by a commit;
\* no other step changes the EEPROM.
C6_WritesOnlyFinishOrCommit ==
  sketch \in {"Escapement", "RealtimeClockCal"} =>
    /\ wrote => ((op = "mode" /\ runMode = "CALFINISH") \/ Committed)
    /\ eeprom # pre.eeprom => wrote
C6_Witness ==
  sketch = "Escapement" /\ wrote /\ op = "mode" /\ runMode = "CALFINISH"

\* C7: a BendulumClock commit goes to exactly one target: in RTC calibration
\* the RTC bias and not the beat delta, otherwise the beat delta and not the
\* RTC bias.
C7_OneTarget ==
  (sketch = "BendulumClock" /\ Committed) =>
    IF pre.adjRTC
      THEN bias = pre.bias + pre.speedAdj /\ beatDelta = pre.beatDelta
      ELSE beatDelta = pre.beatDelta + pre.speedAdj /\ bias = pre.bias
C7_Witness ==
  sketch = "BendulumClock" /\ Committed /\ pre.adjRTC /\ bias # pre.bias

\* C8: Pause and Advance never hand driveMicros a value outside the signed
\* 32-bit range: a step of at most 21474 tenths goes out as the exact product
\* +/- stepSize * 100000 microseconds, the only larger step (36000) as
\* +/- 3600 whole seconds through driveSec.
C8_DriveInRange ==
  (op \in {"fLeft", "fRight"} /\ pre.adjustable) =>
    LET st == StepAt(pre.stepix)
        sg == IF op = "fLeft" THEN -1 ELSE 1
    IN  IF st <= 21474
          THEN calls = <<driveMicros(sg * st * 100000)>>
          ELSE st = 36000 /\ calls = <<driveSec(sg * 3600)>>
C8_Witness ==
  op = "fLeft" /\ pre.adjustable /\ pre.stepix = 5 /\ calls = <<driveSec(-3600)>>

\* C9: with adjustments on, Pause issues exactly one drive command of minus
\* stepSize[stepix] tenths of a second and Advance one of plus
\* stepSize[stepix] tenths, in either unit; the pending adjustment, the step
\* index, the run mode and the persisted settings are unchanged.
C9_PauseAdvance ==
  (op \in {"fLeft", "fRight"} /\ pre.adjustable) =>
    /\ Len(calls) = 1
    /\ calls[1].call \in {"driveMicros", "driveSec"}
    /\ WholeTenths(calls[1])
    /\ Tenths(calls[1]) =
         IF op = "fLeft" THEN -StepAt(pre.stepix) ELSE StepAt(pre.stepix)
    /\ speedAdj = pre.speedAdj /\ stepix = pre.stepix /\ runMode = pre.runMode
    /\ adjustable /\ adjRTC = pre.adjRTC
    /\ SettingsKept
C9_Witness ==
  op = "fRight" /\ pre.adjustable /\ pre.stepix = 0 /\ calls = <<driveMicros(100000)>>

\* C10: the step index stays in 0..5, starting at 3; with adjustments on C
\* takes i to (i+1) mod 6 and A takes i to (i-1) mod 6, so an increment
\* followed by a decrement, and six increments, lead back.
C10_StepIndexCircular ==
  /\ stepix \in 0..5
  /\ pc = "setup" => stepix = 3
  /\ (op = "fC" /\ pre.adjustable) =>
       (stepix = (pre.stepix + 1) % 6 /\ DecStep(stepix) = pre.stepix)
  /\ (op = "fA" /\ pre.adjustable) =>
       (stepix = (pre.stepix + 5) % 6 /\ IncStep(stepix) = pre.stepix)
  /\ LET i1 == IncStep(stepix)
         i2 == IncStep(i1)
         i3 == IncStep(i2)
         i4 == IncStep(i3)
         i5 == IncStep(i4)
     IN  IncStep(i5) = stepix
C10_Witness ==
  op = "fA" /\ pre.adjustable /\ pre.stepix = 0 /\ stepix = 5

\* the last step was a pass of RealtimeClockCal's loop() that drove the clock
RTC_Drove == sketch = "RealtimeClockCal" /\ op = "beat" /\ calls # << >>
\* the uncorrected time that pass measured, micros() - lastTime; the two words
\* are less than 2^31 apart in every pass of the model
Elapsed == topTime - pre.lastTime
\* deltaT + floor((bias*deltaT + 432000) / 864000) for a deltaT of whole
\* milliseconds, in unbounded integers
ExactCorrected(b, deltaT) == deltaT + ((b * (deltaT \div 1000) + 432) \div 864)

\* C11: the correction applied to an elapsed interval, corrected - deltaT, is
\* never positive for a negative bias, never negative for a positive bias
\* and exactly 0 for bias 0.
C11_CorrectionSign ==
  RTC_Drove =>
    LET d == calls[1].arg - Elapsed
        b == settings.rtcCorrection
    IN  /\ b = 0 => d = 0
        /\ b < 0 => d <= 0
        /\ b > 0 => d >= 0

\* C12: for a bias in -3600..3600 and an interval of at least 500000
\* microseconds the value passed to driveMicros is
\* deltaT + floor((bias*deltaT + 432000) / 864000); bias -50 and deltaT
\* 900000 give 899948.
C12_ExactRounding ==
  (RTC_Drove /\ settings.rtcCorrection \in -3600..3600 /\ Elapsed >= 500000) =>
    calls[1].arg = ExactCorrected(settings.rtcCorrection, Elapsed)

\* C13: a pass of RealtimeClockCal's loop() drives the clock if and only if
\* the uncorrected time since the last drive is at least 500000 microseconds,
\* also across the wrap of micros(); below that nothing is driven and
\* lastTime is unchanged.
C13_DriveAtThreshold ==
  (sketch = "RealtimeClockCal" /\ op = "beat") =>
    /\ (calls # << >>) <=> (Elapsed >= 500000)
    /\ calls # << >> =>
         (Len(calls) = 1 /\ calls[1].call = "driveMicros" /\ lastTime = topTime)
    /\ Elapsed < 500000 => lastTime = pre.lastTime
C13_Witness ==
  /\ RTC_Drove /\ pre.lastTime < 0 /\ topTime > 0
  /\ Elapsed = 800000 /\ lastTime = topTime

\* C14: with a stored tag other than SETTINGS_TAG no stored field is used:
\* Escapement leaves the Bendulum object at its defaults, and
\* RealtimeClockCal corrects the time with a bias of 0 for as long as no
\* record has been written.
C14_InvalidTagIgnored ==
  /\ (sketch = "Escapement" /\ op = "setup" /\ eeprom.id # SETTINGS_TAG) =>
       /\ bias = 0 /\ uspb = 0 /\ peakScale = DefaultPeakScale
       /\ runMode = DefaultRunMode
  /\ (RTC_Drove /\ eeprom.id # SETTINGS_TAG) =>
       (settings.rtcCorrection = 0 /\ calls[1].arg = Elapsed)

\* C15: with the cold-start jumper installed at power-up, BendulumClock
\* starts in COLDSTART whatever the EEPROM holds, and Escapement does not
\* read the EEPROM, applies no stored bias, beat duration or peak scale and
\* does not start in RUNNING.
C15_JumperIgnoresStored ==
  (op = "setup" /\ jumper) =>
    /\ sketch = "BendulumClock" => runMode = "COLDSTART"
    /\ sketch = "Escapement" =>
         /\ settings = ZeroSettings
         /\ bias = 0 /\ uspb = 0 /\ peakScale = DefaultPeakScale
         /\ runMode = DefaultRunMode /\ runMode # "RUNNING"
C15_Witness ==
  /\ sketch = "Escapement" /\ op = "setup" /\ jumper
  /\ eeprom = ValidImage /\ settings = ZeroSettings /\ runMode = "SETTLING"

\* the record writeEEPROM() would store in the current state
SavedNow ==
  IF sketch = "Escapement"
    THEN Esc_Record(bias, peakScale, uspb, beatDelta)
    ELSE RTC_Record(settings)
\* setup() has just read the stored record
Loaded == sketch \in {"Escapement", "RealtimeClockCal"} /\ op = "setup" /\ ~jumper

C17_RunningHasTag ==
  (sketch = "Escapement" /\ runMode = "RUNNING") => eeprom.id = SETTINGS_TAG

\* C18: every pass of Escapement's run mode through CALFINISH has written the
\* calibration to the EEPROM exactly once by the time the run mode leaves
\* CALFINISH, whether CALFINISH was seen on a tick or a tock and whatever
\* button was handled in that pass of loop().
C18_OneWritePerFinish ==
  (sketch = "Escapement" /\ pre.runMode = "CALFINISH" /\ runMode # "CALFINISH") =>
    pre.calWrites = 1

\* C19 as claimed, for a Select: a Select enters CALRTC only when it is
\* issued while the run mode is RUN, and in no other run mode.
C19_OnlyFromRun ==
  (sketch = "BendulumClock" /\ op = "fSelect"
     /\ runMode = "CALRTC" /\ pre.runMode # "CALRTC") =>
    pre.runMode = "RUN"
\* C19 amended: the run mode becomes CALRTC only by the escapement's own
\* step out of the warm-up of a cold start, or by a Select issued with
\* adjustments on and adjRTC off, in whatever run mode; a Select with
\* adjustments off leaves the run mode alone and a Select with adjRTC set
\* leads to WARMSTART.
C19_EntersCalRTC ==
  sketch = "BendulumClock" =>
    /\ (runMode = "CALRTC" /\ pre.runMode # "CALRTC") =>
         \/ op = "fSelect" /\ pre.adjustable /\ ~pre.adjRTC
         \/ op = "beat" /\ pre.runMode = "WARMSTART"
    /\ (op = "fSelect" /\ ~pre.adjustable) => runMode = pre.runMode
    /\ (op = "fSelect" /\ pre.adjustable /\ pre.adjRTC) => runMode = "WARMSTART"
C19_Witness ==
  /\ sketch = "BendulumClock" /\ op = "fSelect" /\ pre.adjustable
  /\ pre.runMode = "CALIBRATE" /\ runMode = "CALRTC"

IsPoint(b) == IF sketch = "DumpEeprom" THEN b.curSmoothing > TGT_SMOOTHING ELSE b.uspb > 0
PointIxs == {i \in 1..TEMP_STEPS : IsPoint(table.bucket[i])}
PointX(i) ==
  IF sketch = "DumpEeprom"
    THEN FInt((2 * TEMP_MIN + (i - 1)) * 128)
    ELSE FDiv(FInt(table.bucket[i].temp), FInt(256))
PointY(i) == FInt(table.bucket[i].uspb)

\* ordinary least squares in its pairwise form: the slope is the sum over
\* the pairs of points of dx * dy divided by the sum of dx * dx, and the
\* line passes through the mean point
PointPairs == {p \in PointIxs \X PointIxs : p[1] < p[2]}
PairDx(p) == FSub(PointX(p[1]), PointX(p[2]))
PairDy(p) == FSub(PointY(p[1]), PointY(p[2]))

RECURSIVE SumDxDy(_)
SumDxDy(ps) ==
  IF ps = {} THEN FInt(0)
  ELSE LET p == CHOOSE q \in ps : TRUE
       IN  FAdd(FMul(PairDx(p), PairDy(p)), SumDxDy(ps \ {p}))

RECURSIVE SumDxDx(_)
SumDxDx(ps) ==
  IF ps = {} THEN FInt(0)
  ELSE LET p == CHOOSE q \in ps : TRUE
       IN  FAdd(FMul(PairDx(p), PairDx(p)), SumDxDx(ps \ {p}))

RECURSIVE SumX(_)
SumX(is) ==
  IF is = {} THEN FInt(0)
  ELSE LET i == CHOOSE j \in is : TRUE IN FAdd(PointX(i), SumX(is \ {i}))

RECURSIVE SumY(_)
SumY(is) ==
  IF is = {} THEN FInt(0)
  ELSE LET i == CHOOSE j \in is : TRUE IN FAdd(PointY(i), SumY(is \ {i}))

LeastSquaresSlope == FDiv(SumDxDy(PointPairs), SumDxDx(PointPairs))
LeastSquaresIntercept ==
  FSub(FDiv(SumY(PointIxs), FInt(Cardinality(PointIxs))),
       FMul(LeastSquaresSlope, FDiv(SumX(PointIxs), FInt(Cardinality(PointIxs)))))

\* the regression ran to its end
Fitted == sketch \in DumpSketches /\ pc = "done" /\ table.compensated

\* the three points (0, 100), (1, 110), (2, 120) as DumpCalibration's table
ExamplePoints ==
  <<[uspb |-> 100, curSmoothing |-> 0, temp |-> 0],
    [uspb |-> 110, curSmoothing |-> 0, temp |-> 256],
    [uspb |-> 120, curSmoothing |-> 0, temp |-> 512]>>

\* C21: a line printed for two or more points that do not all have the same
\* x is the ordinary least-squares line through the sketch's calibration
\* points, and for (0, 100), (1, 110), (2, 120) DumpCalibration prints
\* slope 10.0000 and intercept 100.0000
C21_FitIsLeastSquares ==
  /\ (Fitted /\ report.kind = "fit" /\ report.count >= 2 /\ SumDxDx(PointPairs).n # 0)
       => /\ report.count = Cardinality(PointIxs)
          /\ report.slope = LeastSquaresSlope
          /\ report.intercept = LeastSquaresIntercept
  /\ (Fitted /\ sketch = "DumpCalibration" /\ table.bucket = ExamplePoints)
       => /\ report.kind = "fit"
          /\ report.slopeText = [form |-> "number", value |-> 100000]
          /\ report.interceptText = [form |-> "number", value |-> 1000000]

C21_Witness ==
  /\ Fitted /\ sketch = "DumpCalibration" /\ table.bucket = ExamplePoints
  /\ report.kind = "fit" /\ report.count = 3
  /\ report.slope = FInt(10) /\ report.intercept = FInt(100)

\* C22: with fewer than two calibration points no line is printed
C22_NoLineBelowTwo == (Fitted /\ sums.count < 2) => report.kind # "fit"

\* C23: with two or more calibration points and a zero denominator
\* count * xxSum - xSum * xSum no line is printed
C23_NoLineOnZeroDenominator ==
  (Fitted /\ sums.count >= 2
     /\ FSub(FMul(FInt(sums.count), sums.xxSum), FMul(sums.xSum, sums.xSum)).n = 0)
    => report.kind # "fit"

(***************************************************************************)
(* Sessions of the remote                                                  *)
(***************************************************************************)
\* every code of the session has arrived
SessionOver == irCodes # << >> /\ irNext > Len(irCodes)

\* the last step took a code of the session, and the code it took
CodeArrived == irCodes # << >> /\ irNext = pre.irNext + 1
ArrivedCode == irCodes[pre.irNext]

HeldSession ==
  \E k \in ButtonCodes : irCodes \in {HeldOff(k), HeldOn(k)}
HeldButton == irCodes[Len(irCodes) - HeldRepeats]
RepeatOrdinal == pre.irNext - (Len(irCodes) - HeldRepeats)

\* the ledger, the run mode and the settings are as before the last step
NothingDone ==
  /\ op = "none" /\ calls = << >> /\ SettingsKept
  /\ stepix = pre.stepix /\ adjustable = pre.adjustable /\ speedAdj = pre.speedAdj
  /\ adjRTC = pre.adjRTC /\ runMode = pre.runMode

\* C28: the code of a held button runs its handler, the first
\* SFIRR_REPEAT_PAUSE repeat codes after it run none and change nothing, and
\* every later repeat code runs the handler of the held button
C28_RepeatPause ==
  (HeldSession /\ CodeArrived) =>
    IF ArrivedCode # "REPEAT" THEN op = ArrivedCode
    ELSE IF RepeatOrdinal <= SFIRR_REPEAT_PAUSE THEN NothingDone
    ELSE op = HeldButton

(***************************************************************************)
(* The order of a pass of loop()                                           *)
(***************************************************************************)
\* C24: in BendulumClock and Escapement onButton is reached only from the
\* beat, whose duration has then gone to c.driveMicros; a pass runs one
\* handler at most and goes on to the run-mode switch; the beat is reached
\* only from setup() or from the end of a pass; and a commit has added the
\* pending adjustment and written the settings within the handler's step
C24_BeatThenOneIntent ==
  sketch \in {"BendulumClock", "Escapement"} =>
    /\ pc = "button" =>
         (op = "beat" /\ Len(calls) = 1 /\ calls[1].call = "driveMicros")
    /\ op \in ButtonCodes \cup {"none"} => pc = "mode"
    /\ pc = "beat" => op \in {"setup", "mode"}
    /\ Committed =>
         /\ pc = "mode" /\ wrote /\ speedAdj = 0
         /\ Target = TargetBefore + pre.speedAdj
         /\ sketch = "Escapement" =>
              (eeprom = settings /\ settings.uspb = getBeatDuration(uspb, beatDelta))

C24_Witness ==
  /\ sketch = "Escapement" /\ Committed /\ pc = "mode" /\ wrote
  /\ beatDelta # pre.beatDelta /\ eeprom # pre.eeprom

(***************************************************************************)
(* The Clock's running total                                               *)
(***************************************************************************)
\* C25: the seconds shown and the running total together are what was
\* driven; once a call has returned the total is below half a second, and
\* with a total of no less than minus half a second the display is within
\* half a second of the time driven; after a pause the display has moved
\* only when the beats since have made up the pause
C25_ClockTotal ==
  pc = "clock" =>
    /\ clkShown * OneSecond + clkTotal = clkDriven
    /\ clkTotal < HalfSecond
    /\ clkTotal >= -HalfSecond =>
         (/\ clkShown * OneSecond - clkDriven <= HalfSecond
          /\ clkDriven - clkShown * OneSecond <= HalfSecond)
    /\ (clkPause > 0 /\ clkMoved) => clkSince >= clkPause

C25_Witness ==
  /\ pc = "clock" /\ op = "beat"
  /\ clkPause = 10 * OneSecond /\ clkMoved
  /\ clkSince >= clkPause /\ clkSince < clkPause + 2 * OneSecond

(***************************************************************************)
(* The colour of the beat flash                                            *)
(***************************************************************************)
\* the colour the header gives each run mode; no colour is given for the
\* other run modes
DocumentedColor(m) ==
  CASE m = "CALRTC"    -> {RTC_BEAT_COLOR}
    [] m = "WARMSTART" -> {WARM_BEAT_COLOR}
    [] m = "CALIBRATE" -> {CAL_BEAT_COLOR}
    [] m = "RUN"       -> {NORMAL_BEAT_COLOR}
    [] OTHER           -> {RGB_LED_BLACK, COLD_BEAT_COLOR, WARM_BEAT_COLOR,
                           CAL_BEAT_COLOR, NORMAL_BEAT_COLOR, RTC_BEAT_COLOR}

\* C27: in BendulumClock, when a pass of loop() ends the beat flash has the
\* colour of the run mode: magenta in CALRTC, yellow in WARMSTART, blue in
\* CALIBRATE and green in RUN
C27_ColorTracksRunMode ==
  (sketch = "BendulumClock" /\ op = "mode") => ledBeatColor \in DocumentedColor(runMode)

(***************************************************************************)
(* Escapement: hot start                                                   *)
(***************************************************************************)
\* what setup() finds: no jumper, the tag of the sketch, a beat duration
HotStartable == ~jumper /\ eeprom.id = SETTINGS_TAG /\ eeprom.uspb > 0

\* C29: Escapement leaves setup() in RUNNING, with the stored beat duration
\* and peak scale, exactly when the jumper is absent, the stored tag is
\* SETTINGS_TAG and the stored uspb is positive; with the tag but no positive
\* uspb only the correction is loaded and b keeps its default run mode
C29_HotStart ==
  (sketch = "Escapement" /\ op = "setup") =>
    /\ runMode = "RUNNING" <=> HotStartable
    /\ HotStartable =>
         /\ uspb = eeprom.uspb /\ peakScale = eeprom.peakScale
         /\ bias = eeprom.rtcCorrection
    /\ (~jumper /\ eeprom.id = SETTINGS_TAG /\ eeprom.uspb <= 0) =>
         /\ bias = eeprom.rtcCorrection
         /\ runMode = DefaultRunMode
         /\ uspb = pre.uspb /\ peakScale = pre.peakScale
    /\ ~HotStartable => (uspb = pre.uspb /\ peakScale = pre.peakScale)

C29_Witness ==
  /\ sketch = "Escapement" /\ op = "setup" /\ HotStartable
  /\ runMode = "RUNNING" /\ pre.runMode = DefaultRunMode
  /\ uspb = 1000000 /\ peakScale = 10 /\ bias = -50

(***************************************************************************)
(* Power with nothing pending                                              *)
(***************************************************************************)
\* the last step was Power, pressed with a pending adjustment of zero
IdlePower ==
  /\ sketch \in {"BendulumClock", "Escapement"}
  /\ op = "fPower" /\ pre.speedAdj = 0

\* C30: Power with nothing pending, turning adjustments on or off, changes
\* the adjustable flag and nothing else: no write, no drive or cancel call,
\* and stepix, speedAdj, adjRTC, run mode, bias and beat duration as before;
\* Power, Up, Down at one step and Power again ends in such a Power
C30_IdlePowerFrame ==
  /\ IdlePower =>
       /\ adjustable = ~pre.adjustable
       /\ ~wrote /\ calls = << >>
       /\ eeprom = pre.eeprom /\ settings = pre.settings
       /\ stepix = pre.stepix /\ speedAdj = 0 /\ adjRTC = pre.adjRTC
       /\ runMode = pre.runMode
       /\ bias = pre.bias /\ beatDelta = pre.beatDelta
       /\ uspb = pre.uspb /\ peakScale = pre.peakScale
  /\ (sketch \in {"BendulumClock", "Escapement"} /\ irCodes = UpDownOff
        /\ CodeArrived /\ SessionOver) =>
       (IdlePower /\ pre.adjustable /\ ~wrote /\ eeprom = pre.eeprom)

C30_Witness ==
  /\ sketch = "Escapement" /\ irCodes = UpDownOff /\ CodeArrived /\ SessionOver
  /\ IdlePower /\ pre.adjustable /\ ~adjustable /\ pre.stepix = 3
  /\ eeprom = ValidImage

(***************************************************************************)
(* Nothing pending while adjustments are off                               *)
(***************************************************************************)
\* C31: in BendulumClock adjustments off means nothing pending, whether
\* they were turned off by Power or by Select; Power, Up, Select, Power,
\* Power commits nothing, and Power, Up, Power, Power, Power commits the one
\* step once
C31_OffMeansNothingPending ==
  sketch = "BendulumClock" =>
    /\ ~adjustable => speedAdj = 0
    /\ (irCodes = UpSelectOnOff /\ SessionOver) =>
         (beatDelta = 0 /\ bias = EnableBias(eeprom) /\ ~wrote)
    /\ (irCodes = UpOffOnOff /\ SessionOver) =>
         (beatDelta = StepAt(3) /\ bias = EnableBias(eeprom) /\ ~wrote)

C31_Witness ==
  /\ sketch = "BendulumClock" /\ irCodes = UpSelectOnOff
  /\ CodeArrived /\ ArrivedCode = "fSelect" /\ op = "fSelect"
  /\ pre.adjustable /\ pre.speedAdj = 600
  /\ ~adjustable /\ speedAdj = 0

\* C32: in Escapement adjustments off means nothing pending; an adjustment
\* pending when Select starts a calibration run is dropped, and Power on,
\* Power off afterwards adds nothing to the beat duration
C32_EscOffMeansNothingPending ==
  sketch = "Escapement" =>
    /\ ~adjustable => speedAdj = 0
    /\ (op = "fSelect" /\ pre.adjustable) => speedAdj = 0
    /\ (irCodes = UpSelectOnOff /\ CodeArrived /\ SessionOver) =>
         (beatDelta = pre.beatDelta /\ ~wrote)

(***************************************************************************)
(* BendulumClock: the target of a commit and the run mode                  *)
(***************************************************************************)
\* C33: in BendulumClock adjRTC is true exactly when the run mode is CALRTC,
\* whoever changed the run mode, and a commit made in CALRTC goes to the
\* RTC bias
C33_RtcFlagTracksMode ==
  sketch = "BendulumClock" =>
    /\ adjRTC <=> runMode = "CALRTC"
    /\ (op = "fPower" /\ pre.adjustable /\ pre.speedAdj # 0
         /\ pre.runMode = "CALRTC") =>
         (bias = incrBias(pre.bias, pre.speedAdj) /\ beatDelta = pre.beatDelta)

(***************************************************************************)
(* RealtimeClockCal: the time accounted for                                *)
(***************************************************************************)
\* C34: the uncorrected intervals for which the clock was driven add up to
\* lastTime minus the lastTime loop() started with, modulo 2^32, also when
\* micros() has wrapped in between
C34_NoTimeLost ==
  (sketch = "RealtimeClockCal" /\ pc \in {"button", "beat"}) =>
    /\ Sub32(lastTime, rtcFirst) = rtcSum
    /\ op = "beat" =>
         /\ calls # << >> => lastTime = topTime
         /\ calls = << >> => lastTime = pre.lastTime

C34_Witness ==
  /\ RTC_Drove /\ rtcFirst < 0 /\ lastTime > 0
  /\ Elapsed = 800000 /\ rtcSum = 2300000

(***************************************************************************)
(* RealtimeClockCal: what a commit stores                                  *)
(***************************************************************************)
\* C35: a commit in RealtimeClockCal stores the sum of the old correction and
\* the pending adjustment, whatever adjustment Up and Down have entered
C35_StoresExactSum ==
  (sketch = "RealtimeClockCal" /\ Committed) =>
    /\ wrote
    /\ eeprom.rtcCorrection = pre.settings.rtcCorrection + pre.speedAdj
    /\ settings.rtcCorrection = eeprom.rtcCorrection

\* C36: a commit in RealtimeClockCal leaves the stored uspb and peakScale as
\* they were stored before, with or without the jumper and whatever the
\* stored tag was
C36_CommitKeepsCalibration ==
  (sketch = "RealtimeClockCal" /\ Committed) =>
    /\ wrote
    /\ eeprom.uspb = pre.eeprom.uspb
    /\ eeprom.peakScale = pre.eeprom.peakScale

(***************************************************************************)
(* onButton: codes that are no button's                                    *)
(***************************************************************************)
\* the sketches that decode the remote in their own onButton
OwnOnButton == sketch \in {"Escapement", "RealtimeClockCal"}

\* C37: a code the remote does not generate calls no handler (and so gets
\* no white flash), leaves the ledger, the run mode, the settings and
\* onButton's own keyIx and repeat as they were, and leaves the receiver
\* watching, so that the button code after it is handled
C37_UnknownCodeIgnored ==
  (OwnOnButton /\ irCodes = StrayCode /\ CodeArrived) =>
    /\ ArrivedCode = "other" =>
         /\ NothingDone /\ ~wrote
         /\ keyIx = pre.keyIx /\ repeat = pre.repeat
         /\ irReady /\ Incoming = {"nothing", "fUp"}
    /\ ArrivedCode = "fUp" =>
         (op = "fUp" /\ adjustable /\ speedAdj = StepAt(3))

C37_Witness ==
  /\ sketch = "Escapement" /\ irCodes = StrayCode /\ CodeArrived /\ SessionOver
  /\ op = "fUp" /\ pre.speedAdj = 0 /\ speedAdj = 600 /\ adjustable

\* C38: repeat codes that arrive before any button code since power-up call
\* no handler and change nothing
C38_RepeatsBeforeButton ==
  (OwnOnButton /\ irCodes = RepeatsFirst /\ CodeArrived) =>
    (NothingDone /\ ~wrote /\ ~adjustable)

\* C39: DriveClock's stepClock() puts out one pulse per call, the first on the
\* tick pin and then on the tock and tick pins in turn; the LED is on for the
\* length of the call, only the pin being pulsed is HIGH, and between calls
\* every pin is LOW.
C39_PulsesAlternate ==
  sketch = "DriveClock" =>
    /\ \A i \in 1..Len(pulses) :
         pulses[i] = IF i % 2 = 1 THEN TICK_PIN ELSE TOCK_PIN
    /\ Len(pulses) = steps + (IF pc \in {"pulse", "led off"} THEN 1 ELSE 0)
    /\ tick = (steps % 2 = 0)
    /\ pins[LED_PIN] = (IF pc \in {"led on", "pulse", "led off"} THEN "HIGH" ELSE "LOW")
    /\ pins[TICK_PIN] = (IF pc = "pulse" /\ tick THEN "HIGH" ELSE "LOW")
    /\ pins[TOCK_PIN] = (IF pc = "pulse" /\ ~tick THEN "HIGH" ELSE "LOW")

C39_Witness ==
  /\ sketch = "DriveClock" /\ op = "stepClock" /\ steps = 4
  /\ pulses = <<TICK_PIN, TOCK_PIN, TICK_PIN, TOCK_PIN>>
  /\ pins = AllLow

=========================================================================
